---- MODULE Spec2Model ----
(***************************************************************************)
(* Query orchestration pipeline of the regenerative-agriculture agent:     *)
(* the LangGraph state machine of agent/core/graph.py, its six nodes, the  *)
(* keyword classifier, the Spanish date parser and the telemetry tools.    *)
(*                                                                         *)
(* Text is a sequence of one-character strings, so that Python's           *)
(* substring tests, str.lower and str.replace are computed letter by       *)
(* letter.  A word constant s_xxx spells the Python literal; in its name   *)
(* an upper-case vowel stands for the accented vowel, N for n-tilde and    *)
(* an underscore for a blank.                                              *)
(***************************************************************************)
EXTENDS Integers, Sequences, FiniteSets, TLC

\* ------------------------------------------------------------------ text

\* Python None for a text-valued field (no text is a one-element tuple
\* holding a four-letter string).
NoText == <<"None">>

UpperLetters == <<"A","B","C","D","E","F","G","H","I","J","K","L","M","N","O","P","Q","R","S","T","U","V","W","X","Y","Z","Á","É","Í","Ó","Ú","Ñ">>
LowerLetters == <<"a","b","c","d","e","f","g","h","i","j","k","l","m","n","o","p","q","r","s","t","u","v","w","x","y","z","á","é","í","ó","ú","ñ">>
Digits == <<"0","1","2","3","4","5","6","7","8","9">>

Range(seq) == {seq[i] : i \in 1..Len(seq)}

UpperSet == Range(UpperLetters)
DigitSet == Range(Digits)
\* the characters \w of a Python 3 str pattern matches
WordChars == Range(LowerLetters) \cup UpperSet \cup DigitSet \cup {"_"}

\* str.lower()
Lower(text) ==
    [i \in 1..Len(text) |->
        IF text[i] \in UpperSet
        THEN LowerLetters[CHOOSE k \in 1..Len(UpperLetters) : UpperLetters[k] = text[i]]
        ELSE text[i]]

\* Python's  needle in text  at a given 1-based position
MatchAt(needle, text, i) ==
    /\ i >= 1
    /\ i + Len(needle) - 1 <= Len(text)
    /\ \A k \in 1..Len(needle) : text[i + k - 1] = needle[k]

\* Python's  needle in text
Contains(needle, text) == \E i \in 1..(Len(text) + 1) : MatchAt(needle, text, i)

\* any(word in text for word in words)
AnyIn(words, text) == \E k \in 1..Len(words) : Contains(words[k], text)

\* for word in words: if word in text: return word  /  return None
FirstIn(words, text) ==
    IF AnyIn(words, text)
    THEN words[CHOOSE k \in 1..Len(words) :
                  /\ Contains(words[k], text)
                  /\ \A j \in 1..(k - 1) : ~Contains(words[j], text)]
    ELSE NoText

\* ------------------------------------------------- classifier vocabulary


\* ------------------------------------------------------------- calendar

\* A date as datetime holds it.
Date(y, m, d) == [year |-> y, month |-> m, day |-> d]


DaysInMonth(y, m) ==
    IF m = 2 THEN (IF (y % 4 = 0) /\ ((y % 100 # 0) \/ (y % 400 = 0)) THEN 29 ELSE 28)
    ELSE IF m \in {4, 6, 9, 11} THEN 30 ELSE 31

\* a variant that takes every day up to 31 in every month
ValidDate_any_day(y, m, d) ==
    /\ y >= 1 /\ y <= 9999
    /\ m >= 1 /\ m <= 12
    /\ d >= 1 /\ d <= 31

\* datetime(year, month, day) raises ValueError unless this holds
ValidDate(y, m, d) ==
    /\ y >= 1 /\ y <= 9999
    /\ m >= 1 /\ m <= 12
    /\ d >= 1 /\ d <= DaysInMonth(y, m)

DaysBeforeYear(y) == (y - 1) * 365 + ((y - 1) \div 4) - ((y - 1) \div 100) + ((y - 1) \div 400)

RECURSIVE DaysBeforeMonth(_, _)
DaysBeforeMonth(y, m) ==
    IF m = 1 THEN 0 ELSE DaysBeforeMonth(y, m - 1) + DaysInMonth(y, m - 1)

\* date.toordinal(): 1 is 0001-01-01, a Monday
ToOrdinal(d) == DaysBeforeYear(d.year) + DaysBeforeMonth(d.year, d.month) + d.day

ValidOrdinal(n) == n >= 1 /\ n <= DaysBeforeYear(10000)

\* date.fromordinal()
FromOrdinal(n) ==
    LET y == CHOOSE yy \in (n \div 366)..((n \div 365) + 1) :
                 yy >= 1 /\ DaysBeforeYear(yy) < n /\ n <= DaysBeforeYear(yy + 1)
        r == n - DaysBeforeYear(y)
        m == CHOOSE mm \in 1..12 :
                 DaysBeforeMonth(y, mm) < r /\ r <= DaysBeforeMonth(y, mm) + DaysInMonth(y, mm)
    IN  Date(y, m, r - DaysBeforeMonth(y, m))

\* a variant that counts the days of the week from Sunday
Weekday_sunday_first(d) == ToOrdinal(d) % 7

\* date.weekday(): Monday is 0
Weekday(d) == (ToOrdinal(d) + 6) % 7

\* d + relativedelta(months=1), for a first day of month
NextMonthFirst(d) ==
    IF d.month = 12 THEN Date(d.year + 1, 1, 1) ELSE Date(d.year, d.month + 1, 1)

RECURSIVE DigitsOf(_, _)
\* the decimal digits of n, zero-padded to at least width characters
DigitsOf(n, width) ==
    IF n < 10 /\ width <= 1
    THEN <<Digits[n + 1]>>
    ELSE Append(DigitsOf(n \div 10, width - 1), Digits[(n % 10) + 1])

\* date.strftime("%Y-%m-%d")
Strftime(d) == DigitsOf(d.year, 4) \o <<"-">> \o DigitsOf(d.month, 2) \o <<"-">> \o DigitsOf(d.day, 2)

\* ----------------------------------------------------- regular expressions

IsSpace(c) == c \in {" ", "\t", "\n"}
\* a character \w matches stands at position i
WordAt(text, i) == i >= 1 /\ i <= Len(text) /\ text[i] \in WordChars

\* \b in front of position i
Boundary(text, i) == WordAt(text, i - 1) # WordAt(text, i)

\* re.search(r"\b(lit1|lit2|...)\b", text) is not None
SearchWords(lits, text) ==
    \E k \in 1..Len(lits) : \E i \in 1..Len(text) :
        /\ MatchAt(lits[k], text, i)
        /\ Boundary(text, i)
        /\ Boundary(text, i + Len(lits[k]))

\* end (exclusive) of the longest run of blanks / of digits starting at p
SpaceRunEnd(text, p) ==
    IF p > Len(text) THEN p ELSE
    CHOOSE q \in p..(Len(text) + 1) :
        /\ \A j \in p..(q - 1) : IsSpace(text[j])
        /\ (q = Len(text) + 1 \/ ~IsSpace(text[q]))

DigitRunEnd(text, p) ==
    IF p > Len(text) THEN p ELSE
    CHOOSE q \in p..(Len(text) + 1) :
        /\ \A j \in p..(q - 1) : text[j] \in DigitSet
        /\ (q = Len(text) + 1 \/ text[q] \notin DigitSet)

RECURSIVE ToInt(_)
\* int() of a string of digits
ToInt(ds) ==
    IF ds = <<>> THEN 0
    ELSE 10 * ToInt(SubSeq(ds, 1, Len(ds) - 1))
             + (CHOOSE k \in 1..Len(Digits) : Digits[k] = ds[Len(ds)]) - 1

\* str.strip()
Strip(text) ==
    LET keep == {i \in 1..Len(text) : ~IsSpace(text[i])}
    IN  IF keep = {} THEN <<>>
        ELSE SubSeq(text, CHOOSE a \in keep : \A b \in keep : a <= b,
                          CHOOSE a \in keep : \A b \in keep : a >= b)

Min(S) == CHOOSE a \in S : \A b \in S : a <= b

\* ----------------------------------------------------------- DateParser

\* Python None for time_period
NoPeriod == [start |-> NoText, end |-> NoText]

\* an exception escaping a pattern family; parse_time_expression catches it
Raised == [start |-> <<"raise">>, end |-> <<"raise">>]

\* {"start": a.strftime("%Y-%m-%d"), "end": b.strftime("%Y-%m-%d")}, the two
\* dates given by their ordinals; date arithmetic leaving date.min..date.max
\* raises OverflowError
PeriodOfOrdinals(a, b) ==
    IF ValidOrdinal(a) /\ ValidOrdinal(b)
    THEN [start |-> Strftime(FromOrdinal(a)), end |-> Strftime(FromOrdinal(b))]
    ELSE Raised

DIAS_SEMANA == <<[name |-> <<"l","u","n","e","s">>, num |-> 0], [name |-> <<"m","a","r","t","e","s">>, num |-> 1],
                 [name |-> <<"m","i","é","r","c","o","l","e","s">>, num |-> 2], [name |-> <<"m","i","e","r","c","o","l","e","s">>, num |-> 2],
                 [name |-> <<"j","u","e","v","e","s">>, num |-> 3], [name |-> <<"v","i","e","r","n","e","s">>, num |-> 4],
                 [name |-> <<"s","á","b","a","d","o">>, num |-> 5], [name |-> <<"s","a","b","a","d","o">>, num |-> 5],
                 [name |-> <<"d","o","m","i","n","g","o">>, num |-> 6]>>

\* MESES: the position of a name is its month number
MESES == <<<<"e","n","e","r","o">>, <<"f","e","b","r","e","r","o">>, <<"m","a","r","z","o">>,
        <<"a","b","r","i","l">>, <<"m","a","y","o">>, <<"j","u","n","i","o">>,
        <<"j","u","l","i","o">>,
           <<"a","g","o","s","t","o">>, <<"s","e","p","t","i","e","m","b","r","e">>,
                   <<"o","c","t","u","b","r","e">>, <<"n","o","v","i","e","m","b","r","e">>,
                   <<"d","i","c","i","e","m","b","r","e">>>>

parse_specific_expressions(text, today) ==
    LET t == ToOrdinal(today)
    IN  IF SearchWords(<<<<"h","o","y">>>>, text) THEN PeriodOfOrdinals(t, t)
        ELSE IF SearchWords(<<<<"a","y","e","r">>>>, text) THEN PeriodOfOrdinals(t - 1, t - 1)
        ELSE IF SearchWords(<<<<"m","a","ñ","a","n","a">>,
                <<"m","a","n","a","n","a">>>>, text) THEN PeriodOfOrdinals(t + 1, t + 1)
        ELSE IF SearchWords(<<<<"a","n","t","e","a","y","e","r">>,
                <<"a","n","t","e"," ","a","y","e","r">>>>, text) THEN PeriodOfOrdinals(t - 2, t - 2)
        ELSE IF SearchWords(<<<<"p","a","s","a","d","o"," ","m","a","ñ","a","n","a">>,
                <<"p","a","s","a","d","o"," ","m","a","n","a","n","a">>>>, text) THEN PeriodOfOrdinals(t + 2, t + 2)
        ELSE NoPeriod

AllDigits(text, a, n) == a + n - 1 <= Len(text) /\ \A j \in a..(a + n - 1) : text[j] \in DigitSet

IntAt(text, a, n) == ToInt(SubSeq(text, a, a + n - 1))

\* the matches of  \b(head\s+(\d+)\s+tail)\b  that start at position i, as
\* the set of the numbers captured (empty or one number)
NDaysAt(text, i, heads, tails) ==
    { ToInt(SubSeq(text, SpaceRunEnd(text, i + Len(heads[x[1]])),
                         DigitRunEnd(text, SpaceRunEnd(text, i + Len(heads[x[1]]))) - 1)) :
      x \in { y \in (1..Len(heads)) \X (1..Len(tails)) :
                LET p == i + Len(heads[y[1]])
                    q == SpaceRunEnd(text, p)
                    r == DigitRunEnd(text, q)
                    s == SpaceRunEnd(text, r)
                IN  /\ Boundary(text, i)
                    /\ MatchAt(heads[y[1]], text, i)
                    /\ q > p /\ r > q /\ s > r
                    /\ MatchAt(tails[y[2]], text, s)
                    /\ Boundary(text, s + Len(tails[y[2]])) } }

\* TIME_PATTERNS["ultimos_dias"] and ["proximos_dias"]: the accented and the
\* unaccented alternative
\* a variant that knows only the spelling without accents
UltimosDiasAt_unaccented(text, i) ==
    NDaysAt(text, i, <<<<"u","l","t","i","m","o">>,
            <<"u","l","t","i","m","o","s">>>>, <<<<"d","i","a","s">>>>)

UltimosDiasAt(text, i) ==
    NDaysAt(text, i, <<<<"ú","l","t","i","m","o">>,
            <<"ú","l","t","i","m","o","s">>>>, <<<<"d","í","a">>, <<"d","í","a","s">>>>)
        \cup NDaysAt(text, i, <<<<"u","l","t","i","m","o">>,
                <<"u","l","t","i","m","o","s">>>>, <<<<"d","i","a","s">>>>)

ProximosDiasAt(text, i) ==
    NDaysAt(text, i, <<<<"p","r","ó","x","i","m","o">>,
            <<"p","r","ó","x","i","m","o","s">>>>, <<<<"d","í","a">>, <<"d","í","a","s">>>>)
        \cup NDaysAt(text, i, <<<<"p","r","o","x","i","m","o">>,
                <<"p","r","o","x","i","m","o","s">>>>, <<<<"d","i","a","s">>>>)

parse_relative_periods(text, today) ==
    LET t == ToOrdinal(today)
        wd == Weekday(today)
        first == Date(today.year, today.month, 1)
        ult == {i \in 1..Len(text) : UltimosDiasAt(text, i) # {}}
        prox == {i \in 1..Len(text) : ProximosDiasAt(text, i) # {}}
    IN  IF SearchWords(<<<<"ú","l","t","i","m","a"," ","s","e","m","a","n","a">>,
            <<"u","l","t","i","m","a"," ","s","e","m","a","n","a">>,
            <<"s","e","m","a","n","a"," ","p","a","s","a","d","a">>>>, text)
        THEN PeriodOfOrdinals(t - (wd + 1) - 6, t - (wd + 1))
        ELSE IF SearchWords(<<<<"p","r","ó","x","i","m","a"," ","s","e","m","a","n","a">>,
                <<"p","r","o","x","i","m","a"," ","s","e","m","a","n","a">>,
                <<"s","i","g","u","i","e","n","t","e"," ","s","e","m","a","n","a">>>>, text)
        THEN PeriodOfOrdinals(t + (7 - wd), t + (7 - wd) + 6)
        ELSE IF SearchWords(<<<<"ú","l","t","i","m","o"," ","m","e","s">>,
                <<"u","l","t","i","m","o"," ","m","e","s">>,
                <<"m","e","s"," ","p","a","s","a","d","o">>>>, text)
        THEN IF ValidOrdinal(ToOrdinal(first) - 1)
             THEN LET e == FromOrdinal(ToOrdinal(first) - 1)
                  IN  PeriodOfOrdinals(ToOrdinal(Date(e.year, e.month, 1)), ToOrdinal(e))
             ELSE Raised
        ELSE IF SearchWords(<<<<"p","r","ó","x","i","m","o"," ","m","e","s">>,
                <<"p","r","o","x","i","m","o"," ","m","e","s">>,
                <<"s","i","g","u","i","e","n","t","e"," ","m","e","s">>>>, text)
        THEN LET s == NextMonthFirst(first)
             IN  PeriodOfOrdinals(ToOrdinal(s), ToOrdinal(NextMonthFirst(s)) - 1)
        ELSE IF ult # {}
        THEN LET days == CHOOSE n \in UltimosDiasAt(text, Min(ult)) : TRUE
             IN  PeriodOfOrdinals(t - (days - 1), t)
        ELSE IF prox # {}
        THEN LET days == CHOOSE n \in ProximosDiasAt(text, Min(prox)) : TRUE
             IN  PeriodOfOrdinals(t, t + (days - 1))
        ELSE NoPeriod

\* the matches of TIME_PATTERNS["fecha_especifica"] that start at i, as the
\* set of <<day, month, year>> captured
FechaEspecificaAt(text, i) ==
    { <<IntAt(text, i, x[1]), IntAt(text, i + x[1] + 1, x[2]),
        IntAt(text, i + x[1] + x[2] + 2, 4)>> :
      x \in { y \in {1, 2} \X {1, 2} :
                /\ Boundary(text, i)
                /\ AllDigits(text, i, y[1])
                /\ i + y[1] <= Len(text) /\ text[i + y[1]] \in {"/", "-"}
                /\ AllDigits(text, i + y[1] + 1, y[2])
                /\ i + y[1] + y[2] + 1 <= Len(text)
                /\ text[i + y[1] + y[2] + 1] \in {"/", "-"}
                /\ AllDigits(text, i + y[1] + y[2] + 2, 4)
                /\ Boundary(text, i + y[1] + y[2] + 6) } }

\* TIME_PATTERNS["fecha_texto"], piece by piece.  MonthStart: where the month
\* name starts when the blanks after the day end at q, after the optional
\* "de\s+" of group 2
MonthStart(text, q, month) ==
    IF /\ MatchAt(<<"d","e">>, text, q)
       /\ SpaceRunEnd(text, q + Len(<<"d","e">>)) > q + Len(<<"d","e">>)
       /\ MatchAt(MESES[month], text, SpaceRunEnd(text, q + Len(<<"d","e">>)))
    THEN SpaceRunEnd(text, q + Len(<<"d","e">>))
    ELSE q

\* \s+(de\s+)(\d{4})\b after the month name that ends at e, w the end of the
\* blanks: group 5 takes part in the match
YearWithDe(text, e, w) ==
    /\ w > e
    /\ MatchAt(<<"d","e">>, text, w)
    /\ SpaceRunEnd(text, w + Len(<<"d","e">>)) > w + Len(<<"d","e">>)
    /\ AllDigits(text, SpaceRunEnd(text, w + Len(<<"d","e">>)), 4)
    /\ Boundary(text, SpaceRunEnd(text, w + Len(<<"d","e">>)) + 4)

\* (\s+(de\s+)?(\d{4}))?\b after the month name that ends at e
FechaTextoTail(text, e, w) ==
    \/ YearWithDe(text, e, w)
    \/ w > e /\ AllDigits(text, w, 4) /\ Boundary(text, w + 4)
    \/ Boundary(text, e)

\* the pattern matches at i with a day of n digits and the month-th name
FechaTextoMatch(text, i, n, month, m) ==
    /\ Boundary(text, i)
    /\ AllDigits(text, i, n)
    /\ SpaceRunEnd(text, i + n) > i + n
    /\ MatchAt(MESES[month], text, m)
    /\ FechaTextoTail(text, m + Len(MESES[month]), SpaceRunEnd(text, m + Len(MESES[month])))

\* the matches of TIME_PATTERNS["fecha_texto"] that start at i, as the set of
\* [day, month, group5]: group5 tells whether group 5 of the pattern, the
\* optional "de " in front of the year, took part in the match
FechaTextoAt(text, i) ==
    { [day |-> IntAt(text, i, y[1]), month |-> y[2],
       group5 |-> YearWithDe(text,
                      MonthStart(text, SpaceRunEnd(text, i + y[1]), y[2]) + Len(MESES[y[2]]),
                      SpaceRunEnd(text, MonthStart(text, SpaceRunEnd(text, i + y[1]), y[2])
                                            + Len(MESES[y[2]])))] :
      y \in { z \in {1, 2} \X (1..Len(MESES)) :
                FechaTextoMatch(text, i, z[1], z[2],
                                MonthStart(text, SpaceRunEnd(text, i + z[1]), z[2])) } }

\* the period of one calendar day, None when there is no such day
PeriodOfDay(year, month, day) ==
    IF ValidDate(year, month, day)
    THEN PeriodOfOrdinals(ToOrdinal(Date(year, month, day)), ToOrdinal(Date(year, month, day)))
    ELSE NoPeriod

\* what _parse_specific_dates makes of a fecha_texto match: the year is
\* read from group 5, and int("de ") raises ValueError
PeriodOfFechaTexto(g, today) ==
    IF g.group5 THEN Raised ELSE PeriodOfDay(today.year, g.month, g.day)

PeriodOfFechaEspecifica(g) == PeriodOfDay(g[3], g[2], g[1])

parse_specific_dates(text, today) ==
    IF \E i \in 1..Len(text) : FechaEspecificaAt(text, i) # {}
    THEN PeriodOfFechaEspecifica(
             CHOOSE g \in FechaEspecificaAt(
                 text, Min({i \in 1..Len(text) : FechaEspecificaAt(text, i) # {}})) : TRUE)
    ELSE IF \E i \in 1..Len(text) : FechaTextoAt(text, i) # {}
    THEN PeriodOfFechaTexto(
             CHOOSE g \in FechaTextoAt(
                 text, Min({i \in 1..Len(text) : FechaTextoAt(text, i) # {}})) : TRUE,
             today)
    ELSE NoPeriod

parse_weekday(text, today) ==
    LET hits == {k \in 1..Len(DIAS_SEMANA) : Contains(DIAS_SEMANA[k].name, text)}
    IN  IF hits = {} THEN NoPeriod
        ELSE LET diff == DIAS_SEMANA[Min(hits)].num - Weekday(today)
                 days_ahead == IF diff <= 0 THEN diff + 7 ELSE diff
             IN  PeriodOfOrdinals(ToOrdinal(today) + days_ahead, ToOrdinal(today) + days_ahead)

\* the first family that answers, in the order parse_time_expression tries
\* them; its except clause answers None
FirstPeriod(r1, r2, r3, r4) ==
    IF r1 # NoPeriod THEN r1
    ELSE IF r2 # NoPeriod THEN r2
    ELSE IF r3 # NoPeriod THEN r3
    ELSE r4

Caught(period) == IF period = Raised THEN NoPeriod ELSE period

\* a variant that tries the relative periods before the explicit dates
ParseLowered_relative_first(text, today) ==
    Caught(FirstPeriod(parse_specific_expressions(text, today),
                       parse_relative_periods(text, today),
                       parse_specific_dates(text, today),
                       parse_weekday(text, today)))

ParseLowered(text, today) ==
    Caught(FirstPeriod(parse_specific_expressions(text, today),
                       parse_specific_dates(text, today),
                       parse_relative_periods(text, today),
                       parse_weekday(text, today)))

parse_time_expression(text, today) == ParseLowered(Strip(Lower(text)), today)

get_current_season(today) ==
    IF today.month \in {12, 1, 2, 3} THEN "epoca_seca"
    ELSE IF today.month \in {4, 5} THEN "inicio_lluvias"
    ELSE IF today.month \in {6, 7, 8, 9, 10} THEN "epoca_lluviosa"
    ELSE "transicion"

\* ------------------------------------------------------ knowledge tables

\* CasanareCrops.CROPS_DATA, in dictionary order; key is the dictionary key
CROPS_DATA == <<
    [key |-> <<"a","r","r","o","z">>, name |-> "Arroz",
     optimal_temperature |-> [min |-> 20, max |-> 35, ideal |-> 28],
     optimal_humidity |-> [min |-> 70, max |-> 85, ideal |-> 78],
     regenerative_practices |-> <<"Rotación con leguminosas", "Manejo integrado de plagas",
                                  "Uso de abonos orgánicos", "Sistema de riego eficiente">>],
    [key |-> <<"m","a","i","z">>, name |-> "Maíz",
     optimal_temperature |-> [min |-> 15, max |-> 35, ideal |-> 25],
     optimal_humidity |-> [min |-> 60, max |-> 80, ideal |-> 70],
     regenerative_practices |-> <<"Asociación con frijol", "Mulching con residuos",
                                  "Compostaje", "Control biológico de plagas">>],
    [key |-> <<"y","u","c","a">>, name |-> "Yuca",
     optimal_temperature |-> [min |-> 20, max |-> 35, ideal |-> 27],
     optimal_humidity |-> [min |-> 50, max |-> 80, ideal |-> 65],
     regenerative_practices |-> <<"Policultivo con frutales", "Abonos verdes",
                                  "Conservación de suelos", "Uso de residuos orgánicos">>],
    [key |-> <<"p","l","a","t","a","n","o">>, name |-> "Plátano",
     optimal_temperature |-> [min |-> 20, max |-> 35, ideal |-> 28],
     optimal_humidity |-> [min |-> 70, max |-> 90, ideal |-> 80],
     regenerative_practices |-> <<"Sistemas agroforestales", "Mulching con hojas",
                                  "Compostaje de residuos", "Policultivo con cacao">>],
    [key |-> <<"c","a","c","a","o">>, name |-> "Cacao",
     optimal_temperature |-> [min |-> 20, max |-> 32, ideal |-> 26],
     optimal_humidity |-> [min |-> 75, max |-> 85, ideal |-> 80],
     regenerative_practices |-> <<"Sistemas agroforestales", "Sombra con árboles nativos",
                                  "Compostaje", "Diversificación de cultivos">>],
    [key |-> <<"c","i","t","r","i","c","o","s">>, name |-> "Cítricos",
     optimal_temperature |-> [min |-> 15, max |-> 35, ideal |-> 25],
     optimal_humidity |-> [min |-> 60, max |-> 80, ideal |-> 70],
     regenerative_practices |-> <<"Podas sanitarias", "Manejo integrado de plagas",
                                  "Abonos orgánicos", "Conservación de agua">>] >>

\* the keys of CasanareCrops.AGRICULTURAL_CALENDAR
AGRICULTURAL_CALENDAR == {"epoca_seca", "inicio_lluvias", "epoca_lluviosa", "transicion"}

\* AgricultureData.STRESS_THRESHOLDS
STRESS_THRESHOLDS ==
    [temperature |-> [low |-> 15, high |-> 35], humidity |-> [low |-> 40, high |-> 90]]

\* str.replace(old, new) for one-character old and new
Replace(text, old, new) == [i \in 1..Len(text) |-> IF text[i] = old THEN new ELSE text[i]]

\* CasanareCrops.get_crop_info: the positions of CROPS_DATA whose key is the
\* normalised name (none: the lookup returns {})
get_crop_info(crop_name) ==
    LET crop_key == Replace(Replace(Lower(crop_name), "í", "i"), "ñ", "n")
    IN  {k \in 1..Len(CROPS_DATA) : CROPS_DATA[k].key = crop_key}

Abs(x) == IF x < 0 THEN -x ELSE x

\* a lookup whose ranges leave their bounds out
Suitable_exclusive(k, tsum, hsum, n) ==
    \/ /\ CROPS_DATA[k].optimal_temperature.min * n < tsum
       /\ tsum < CROPS_DATA[k].optimal_temperature.max * n
    \/ /\ CROPS_DATA[k].optimal_humidity.min * n < hsum
       /\ hsum < CROPS_DATA[k].optimal_humidity.max * n

\* CasanareCrops.get_suitable_crops_for_conditions for the averages
\* temperature = tsum / n and humidity = hsum / n: the positions of
\* CROPS_DATA of the suitable crops, sorted by temp_match + humidity_match
\* (list.sort is stable, so ties keep the dictionary order)
Suitable(k, tsum, hsum, n) ==
    \/ /\ CROPS_DATA[k].optimal_temperature.min * n <= tsum
       /\ tsum <= CROPS_DATA[k].optimal_temperature.max * n
    \/ /\ CROPS_DATA[k].optimal_humidity.min * n <= hsum
       /\ hsum <= CROPS_DATA[k].optimal_humidity.max * n

\* the "suitability" of crop k in the result: "óptimo" when both averages
\* are inside the crop's ranges, "aceptable" when one is
Suitability(k, tsum, hsum, n) ==
    IF /\ CROPS_DATA[k].optimal_temperature.min * n <= tsum
       /\ tsum <= CROPS_DATA[k].optimal_temperature.max * n
       /\ CROPS_DATA[k].optimal_humidity.min * n <= hsum
       /\ hsum <= CROPS_DATA[k].optimal_humidity.max * n
    THEN "óptimo"
    ELSE IF Suitable(k, tsum, hsum, n) THEN "aceptable" ELSE "none"

\* n * (temp_match + humidity_match)
MatchKey(k, tsum, hsum, n) ==
    Abs(tsum - n * CROPS_DATA[k].optimal_temperature.ideal)
        + Abs(hsum - n * CROPS_DATA[k].optimal_humidity.ideal)

RECURSIVE SortByKey(_, _, _, _)
SortByKey(S, tsum, hsum, n) ==
    IF S = {} THEN <<>>
    ELSE LET k == CHOOSE a \in S : \A b \in S :
                      \/ MatchKey(a, tsum, hsum, n) < MatchKey(b, tsum, hsum, n)
                      \/ MatchKey(a, tsum, hsum, n) = MatchKey(b, tsum, hsum, n) /\ a <= b
         IN  <<k>> \o SortByKey(S \ {k}, tsum, hsum, n)

get_suitable_crops_for_conditions(tsum, hsum, n) ==
    SortByKey({k \in 1..Len(CROPS_DATA) : Suitable(k, tsum, hsum, n)}, tsum, hsum, n)

\* the tables every invocation reads: class attributes, one object each in
\* the process
ReferenceTables ==
    [crops |-> CROPS_DATA, calendar |-> AGRICULTURAL_CALENDAR, thresholds |-> STRESS_THRESHOLDS]

\* ------------------------------------------------------- AgricultureState

\* Python None for error_message
None == "None"

\* climate_summary == {}
NoSummary ==
    [kind |-> "{}", tsum |-> 0, hsum |-> 0, n |-> 0, suitable_crops |-> <<>>,
     variability_level |-> "none"]

\* create_initial_state: the state record of one request.  confidence is
\* held in tenths; the last four fields are the keys that the nodes write
\* although AgricultureState does not declare them.
create_initial_state(user_query, today) ==
    [user_query |-> user_query,
     user_location |-> "El Guineo, Aguazul, Casanare, Colombia",
     query_type |-> "",
     time_period |-> NoPeriod,
     crop_mentioned |-> NoText,
     location_mentioned |-> NoText,
     sensor_data |-> <<>>,
     climate_summary |-> NoSummary,
     crop_requirements |-> NoText,
     season_info |-> "",
     recommendations |-> <<>>,
     final_answer |-> <<>>,
     confidence |-> 0,
     needs_data_query |-> FALSE,
     needs_crop_analysis |-> FALSE,
     needs_clarification |-> FALSE,
     error_message |-> None,
     processing_steps |-> <<>>,
     timestamp |-> Strftime(today),
     general_info_requested |-> FALSE,
     general_info_category |-> NoText,
     suggest_general_info |-> FALSE,
     suggested_category |-> NoText]

\* StateGraph(AgricultureState): a node's return value is written to the
\* channels of the declared keys only, and the next node reads those
\* channels, so the undeclared keys do not outlive the node that wrote them
StateGraph(s) ==
    [s EXCEPT !.general_info_requested = FALSE,
              !.general_info_category = NoText,
              !.suggest_general_info = FALSE,
              !.suggested_category = NoText]

\* ------------------------------------------------------------ classifier

CurrentStatusWords == <<<<"a","c","t","u","a","l">>, <<"a","h","o","r","a">>, <<"h","o","y">>,
        <<"t","e","m","p","e","r","a","t","u","r","a">>, <<"h","u","m","e","d","a","d">>,
        <<"s","e","n","s","o","r">>>>
HistoryWords == <<<<"h","i","s","t","ó","r","i","c","o">>, <<"h","i","s","t","o","r","i","a">>,
        <<"ú","l","t","i","m","o">>, <<"p","a","s","a","d","o">>, <<"s","e","m","a","n","a">>,
        <<"m","e","s">>>>
AdviceWords == <<<<"r","e","c","o","m","e","n","d","a","c","i","ó","n">>,
        <<"c","o","n","s","e","j","o">>, <<"q","u","é"," ","s","e","m","b","r","a","r">>,
        <<"c","u","l","t","i","v","o">>>>
CropWords == <<<<"a","r","r","o","z">>, <<"m","a","í","z">>, <<"y","u","c","a">>,
        <<"p","l","á","t","a","n","o">>, <<"c","a","c","a","o">>,
        <<"c","í","t","r","i","c","o","s">>>>

\* a variant of the chain that looks for a crop name first
QueryTypeOf_crop_first(query_lower) ==
    IF AnyIn(CropWords, query_lower) THEN "crop_advice"
    ELSE IF AnyIn(CurrentStatusWords, query_lower) THEN "current_status"
    ELSE IF AnyIn(HistoryWords, query_lower) THEN "climate_history"
    ELSE IF AnyIn(AdviceWords, query_lower) THEN "recommendations"
    ELSE "general"

\* the if/elif chain of classify_query
QueryTypeOf(query_lower) ==
    IF AnyIn(CurrentStatusWords, query_lower) THEN "current_status"
    ELSE IF AnyIn(HistoryWords, query_lower) THEN "climate_history"
    ELSE IF AnyIn(AdviceWords, query_lower) THEN "recommendations"
    ELSE IF AnyIn(CropWords, query_lower) THEN "crop_advice"
    ELSE "general"

extract_crop_mention(query) ==
    FirstIn(<<<<"a","r","r","o","z">>, <<"m","a","í","z">>, <<"m","a","i","z">>,
            <<"y","u","c","a">>, <<"p","l","á","t","a","n","o">>, <<"p","l","a","t","a","n","o">>,
            <<"c","a","c","a","o">>,
              <<"c","í","t","r","i","c","o","s">>,
                      <<"c","i","t","r","i","c","o","s">>>>, Lower(query))

extract_location_mention(query) ==
    FirstIn(<<<<"a","g","u","a","z","u","l">>, <<"y","o","p","a","l">>,
            <<"v","i","l","l","a","n","u","e","v","a">>, <<"t","a","u","r","a","m","e","n","a">>,
            <<"m","o","n","t","e","r","r","e","y">>,
            <<"s","a","b","a","n","a","l","a","r","g","a">>>>,
            Lower(query))

general_keywords ==
    <<<<"i","n","f","o","r","m","a","c","i","ó","n"," ","g","e","n","e","r","a","l">>,
            <<"s","u","e","l","o">>, <<"s","u","e","l","o","s">>, <<"r","i","e","g","o">>,
            <<"f","e","r","t","i","l","i","z","a","c","i","ó","n">>,
            <<"f","e","r","t","i","l","i","z","a","c","i","o","n">>,
      <<"m","a","l","e","z","a","s">>, <<"r","e","s","i","d","u","o","s">>,
              <<"p","r","á","c","t","i","c","a","s">>, <<"p","l","a","g","a","s">>,
              <<"u","m","b","r","a","l","e","s">>, <<"e","s","t","r","é","s">>,
              <<"e","s","t","r","e","s">>>>

\* classify_query; fault: an exception inside its try block, which can only
\* come before the first write to the state
classify_query(state, today, fault) ==
    IF fault
    THEN [state EXCEPT !.error_message = "Error clasificando la consulta"]
    ELSE LET query_lower == Lower(state.user_query)
             kw == FirstIn(general_keywords, query_lower)
         IN  [state EXCEPT
                 !.query_type = QueryTypeOf(query_lower),
                 !.time_period = parse_time_expression(state.user_query, today),
                 !.crop_mentioned = extract_crop_mention(state.user_query),
                 !.location_mentioned = extract_location_mention(state.user_query),
                 !.processing_steps = Append(@, "query_classified"),
                 !.general_info_requested = (kw # NoText),
                 !.general_info_category = kw]

\* ------------------------------------------------------- telemetry store

\* the result of a call: the rows returned, or an exception
Returns(rows) == [raised |-> FALSE, rows |-> rows]

\* DatabaseConnection.execute_query: the rows the store answers with; when
\* connecting or executing raises (available is FALSE) the except clause
\* logs the exception and returns []
execute_query(available, rows) == IF available THEN Returns(rows) ELSE Returns(<<>>)

IsPunct(c) == c \in {".", ",", ";", "!", "?"}

\* re.search(r'(-?\d+\.\d+)\s*,\s*(-?\d+\.\d+)', query) is not None
HasCoords(query) ==
    \E i \in 1..Len(query) :
        LET a == DigitRunEnd(query, i)
            b == DigitRunEnd(query, a + 1)
            c == SpaceRunEnd(query, b)
            d == SpaceRunEnd(query, c + 1)
            e == IF d <= Len(query) /\ query[d] = "-" THEN d + 1 ELSE d
            f == DigitRunEnd(query, e)
        IN  /\ a > i
            /\ a <= Len(query) /\ query[a] = "."
            /\ b > a + 1
            /\ c <= Len(query) /\ query[c] = ","
            /\ f > e
            /\ f <= Len(query) /\ query[f] = "."
            /\ f + 1 <= Len(query) /\ query[f + 1] \in DigitSet

\* end (exclusive) of the longest run of [^\.,;!?] starting at p
PlainRunEnd(text, p) ==
    CHOOSE q \in p..(Len(text) + 1) :
        /\ \A j \in p..(q - 1) : ~IsPunct(text[j])
        /\ (q = Len(text) + 1 \/ IsPunct(text[q]))

\* the matches of  (?:en|de)\s+([^\.,;!?]+)  (re.IGNORECASE) that start at
\* i, as the set of the texts captured (empty or one text)
LocationAt(query, i) ==
    LET p == i + 2
        q == SpaceRunEnd(query, p)
        g == IF q <= Len(query) /\ ~IsPunct(query[q]) THEN q ELSE q - 1
    IN  IF /\ i + 1 <= Len(query)
           /\ Lower(SubSeq(query, i, i + 1)) \in {<<"e","n">>, <<"d","e">>}
           /\ q > p
           /\ (g = q \/ g > p)
        THEN {SubSeq(query, g, PlainRunEnd(query, g) - 1)}
        ELSE {}

\* extract_location_or_coords
extract_location_or_coords(query) ==
    LET hits == {i \in 1..Len(query) : LocationAt(query, i) # {}}
    IN  IF HasCoords(query) THEN [kind |-> "coords", location |-> NoText]
        ELSE IF hits # {}
        THEN [kind |-> "location",
              location |-> Strip(CHOOSE g \in LocationAt(query, Min(hits)) : TRUE)]
        ELSE [kind |-> "none", location |-> NoText]

\* the filter of get_structured on one reading: loc in r.get('location',
\* '').lower() or loc in r.get('location_description', '').lower(); a NULL
\* column makes .lower() raise AttributeError
LocationTestRaises(loc, r) ==
    \/ r.location = NoText
    \/ ~Contains(loc, Lower(r.location)) /\ r.location_description = NoText

LocationTest(loc, r) ==
    \/ Contains(loc, Lower(r.location))
    \/ Contains(loc, Lower(r.location_description))

\* [r for r in readings if test(r)]
RECURSIVE FilterLocation(_, _)
FilterLocation(loc, readings) ==
    IF readings = <<>> THEN <<>>
    ELSE (IF LocationTest(loc, Head(readings)) THEN <<Head(readings)>> ELSE <<>>)
             \o FilterLocation(loc, Tail(readings))

\* the branches of get_structured on the filter extracted and the result of
\* get_current_readings.  Its rows carry no latitude or longitude column, so
\* is_near is False for each.
FilterReadings(filtro, result) ==
    IF result.raised THEN [raised |-> TRUE, rows |-> <<>>]
    ELSE IF filtro.kind = "coords" THEN Returns(<<>>)
    ELSE IF filtro.kind = "location"
    THEN IF \E k \in 1..Len(result.rows) :
                LocationTestRaises(Lower(filtro.location), result.rows[k])
         THEN [raised |-> TRUE, rows |-> <<>>]
         ELSE Returns(FilterLocation(Lower(filtro.location), result.rows))
    ELSE result

\* GetCurrentReadingsTool.get_structured
current_readings_get_structured(query, available, rows) ==
    FilterReadings(extract_location_or_coords(query), execute_query(available, rows))

\* GetHistoricalDataTool.get_structured
historical_data_get_structured(time_expression, today, available, rows) ==
    IF parse_time_expression(time_expression, today) = NoPeriod
    THEN Returns(<<>>)
    ELSE execute_query(available, rows)

\* _extract_time_expression of fetch_sensor.py
extract_time_expression(query) ==
    LET time_keywords == <<<<"a","y","e","r">>, <<"h","o","y">>, <<"m","a","ñ","a","n","a">>,
            <<"ú","l","t","i","m","a"," ","s","e","m","a","n","a">>,
            <<"u","l","t","i","m","a"," ","s","e","m","a","n","a">>,
                           <<"p","r","ó","x","i","m","a"," ","s","e","m","a","n","a">>,
                                   <<"p","r","o","x","i","m","a"," ","s","e","m","a","n","a">>,
                                   <<"ú","l","t","i","m","o"," ","m","e","s">>,
                                   <<"u","l","t","i","m","o"," ","m","e","s">>,
                           <<"ú","l","t","i","m","o","s"," ","d","í","a","s">>,
                                   <<"u","l","t","i","m","o","s"," ","d","i","a","s">>,
                                   <<"p","r","ó","x","i","m","o","s"," ","d","í","a","s">>,
                                   <<"p","r","o","x","i","m","o","s"," ","d","i","a","s">>>>
        found == FirstIn(time_keywords, Lower(query))
    IN  IF found # NoText THEN found ELSE <<"ú","l","t","i","m","a"," ","s","e","m","a","n","a">>

\* a variant that does not append the tag of the fetch node
StoreSensorData_untagged(state, result, fault) ==
    IF fault \/ result.raised
    THEN [state EXCEPT !.error_message = "Error obteniendo datos de sensores"]
    ELSE [state EXCEPT !.sensor_data = result.rows]

\* the node's write of the tool's result, or its except clause
StoreSensorData(state, result, fault) ==
    IF fault \/ result.raised
    THEN [state EXCEPT !.error_message = "Error obteniendo datos de sensores"]
    ELSE [state EXCEPT !.sensor_data = result.rows,
                       !.processing_steps = Append(@, "sensor_data_fetched")]

\* fetch_sensor_data; available and rows are the store's answer to the one
\* query the node may issue, fault an exception of its try block outside
\* the tool call
fetch_sensor_data(state, today, available, rows, fault) ==
    StoreSensorData(
        state,
        IF state.query_type = "current_status"
        THEN current_readings_get_structured(state.user_query, available, rows)
        ELSE IF state.query_type = "climate_history" /\ state.time_period # NoPeriod
        THEN historical_data_get_structured(
                 extract_time_expression(state.user_query), today, available, rows)
        ELSE IF state.query_type \in {"recommendations", "crop_advice"}
        THEN current_readings_get_structured(<<"c","o","n","d","i","c","i","o","n","e","s"," ","a","c","t","u","a","l","e","s">>, available, rows)
        ELSE Returns(state.sensor_data),
        fault)

\* ------------------------------------------------------- analysis engine

RECURSIVE SumTemperature(_)
SumTemperature(rows) ==
    IF rows = <<>> THEN 0 ELSE Head(rows).temperature + SumTemperature(Tail(rows))

RECURSIVE SumHumidity(_)
SumHumidity(rows) ==
    IF rows = <<>> THEN 0 ELSE Head(rows).humidity + SumHumidity(Tail(rows))

RECURSIVE SumSquaredTemperature(_)
SumSquaredTemperature(rows) ==
    IF rows = <<>> THEN 0
    ELSE Head(rows).temperature * Head(rows).temperature + SumSquaredTemperature(Tail(rows))

\* variability_level of _analyze_variability for temperature: the
\* coefficient of variation std / mean (sample std, 0 for a zero mean)
\* against 0.3 and 0.1, in exact integer arithmetic; a comparison with the
\* NaN of a single sample is False
VariabilityLevel(rows) ==
    LET n == Len(rows)
        s == SumTemperature(rows)
        d == n * SumSquaredTemperature(rows) - s * s      \* n (n - 1) variance
    IN  IF n < 2 \/ s <= 0 THEN "low"
        ELSE IF 100 * n * d > 9 * (n - 1) * s * s THEN "high"
        ELSE IF 100 * n * d > (n - 1) * s * s THEN "moderate"
        ELSE "low"

\* ClimateAnalyzer._empty_analysis
empty_analysis ==
    [kind |-> "empty", tsum |-> 0, hsum |-> 0, n |-> 0, suitable_crops |-> <<>>,
     variability_level |-> "none"]

\* the result of a call of the engine: the analysis returned, or an exception
Analysis(summary) == [raised |-> FALSE, analysis |-> summary]

\* the analysis of readings the engine could process
full_analysis(tsum, hsum, n, crops, level) ==
    [kind |-> "full", tsum |-> tsum, hsum |-> hsum, n |-> n,
     suitable_crops |-> SubSeq(crops, 1, IF Len(crops) < 5 THEN Len(crops) ELSE 5),
     variability_level |-> level]

\* the try block of ClimateAnalyzer.analyze_climate_data raises:
\* pd.to_datetime on a timestamp it cannot parse, and library_raises for
\* the other pandas and numpy steps
EngineFault(sensor_data, library_raises) ==
    library_raises \/ \E k \in 1..Len(sensor_data) : sensor_data[k].timestamp = "bad"

\* a variant of the engine without the except clause: the exception of the
\* try block reaches the caller
analyze_reraises(sensor_data, library_raises) ==
    IF sensor_data = <<>> THEN Analysis(empty_analysis)
    ELSE IF EngineFault(sensor_data, library_raises) THEN [raised |-> TRUE, analysis |-> empty_analysis]
    ELSE Analysis(full_analysis(
             SumTemperature(sensor_data), SumHumidity(sensor_data), Len(sensor_data),
             get_suitable_crops_for_conditions(
                 SumTemperature(sensor_data), SumHumidity(sensor_data), Len(sensor_data)),
             VariabilityLevel(sensor_data)))

\* ClimateAnalyzer.analyze_climate_data.  Its except clause answers an
\* exception of the try block with the empty analysis.  The result keeps
\* the sums and the count behind the means, the top five suitable crops and
\* the variability level.
analyze(sensor_data, library_raises) ==
    IF sensor_data = <<>> THEN Analysis(empty_analysis)
    ELSE IF EngineFault(sensor_data, library_raises) THEN Analysis(empty_analysis)
    ELSE Analysis(full_analysis(
             SumTemperature(sensor_data), SumHumidity(sensor_data), Len(sensor_data),
             get_suitable_crops_for_conditions(
                 SumTemperature(sensor_data), SumHumidity(sensor_data), Len(sensor_data)),
             VariabilityLevel(sensor_data)))

Rec(kind, arg) == [kind |-> kind, arg |-> arg]

\* ClimateAnalyzer.get_climate_recommendations
get_climate_recommendations(analysis) ==
    IF analysis.kind # "full"
    THEN <<Rec("need_more_data", "")>>
    ELSE (IF analysis.tsum > 35 * analysis.n THEN <<Rec("temperature_high", "")>>
          ELSE IF analysis.tsum < 20 * analysis.n THEN <<Rec("temperature_low", "")>>
          ELSE <<>>)
         \o (IF analysis.hsum > 90 * analysis.n THEN <<Rec("humidity_high", "")>>
             ELSE IF analysis.hsum < 50 * analysis.n THEN <<Rec("humidity_low", "")>>
             ELSE <<>>)
         \o (IF analysis.suitable_crops # <<>>
             THEN <<Rec("best_crop", CROPS_DATA[analysis.suitable_crops[1]].name)>>
             ELSE <<>>)
         \o (IF analysis.variability_level = "high"
             THEN <<Rec("temperature_variability", "")>> ELSE <<>>)

\* ------------------------------------------------------------------ nodes

\* the stress test of the analyze node on the means of the analysis
Stress(analysis, thresholds) ==
    /\ analysis.kind = "full"
    /\ \/ analysis.tsum < thresholds.temperature.low * analysis.n
       \/ analysis.tsum > thresholds.temperature.high * analysis.n
       \/ analysis.hsum < thresholds.humidity.low * analysis.n
       \/ analysis.hsum > thresholds.humidity.high * analysis.n

\* the writes of the analyze node for the result of the engine, or its
\* except clause
StoreAnalysis(state, result) ==
    IF result.raised
    THEN [state EXCEPT !.error_message = "Error analizando datos climáticos"]
    ELSE [state EXCEPT
             !.climate_summary = result.analysis,
             !.suggest_general_info = Stress(result.analysis, STRESS_THRESHOLDS),
             !.suggested_category =
                 IF Stress(result.analysis, STRESS_THRESHOLDS) THEN <<"u","m","b","r","a","l","e","s">> ELSE NoText,
             !.recommendations = @ \o get_climate_recommendations(result.analysis),
             !.processing_steps = Append(@, "climate_analyzed")]

\* a variant that calls the engine whether or not there is telemetry
analyze_climate_data_unguarded(state, library_raises, fault) ==
    IF fault
    THEN [state EXCEPT !.error_message = "Error analizando datos climáticos"]
    ELSE StoreAnalysis(state, analyze(state.sensor_data, library_raises))

\* analyze_climate_data of nodes/analyze.py; fault: an exception of its try
\* block outside the call of the engine
analyze_climate_data(state, library_raises, fault) ==
    IF fault
    THEN [state EXCEPT !.error_message = "Error analizando datos climáticos"]
    ELSE IF state.sensor_data # <<>>
    THEN StoreAnalysis(state, analyze(state.sensor_data, library_raises))
    ELSE [state EXCEPT !.processing_steps = Append(@, "climate_analyzed")]

RECURSIVE Practices(_)
Practices(names) ==
    IF names = <<>> THEN <<>> ELSE <<Rec("practice", Head(names))>> \o Practices(Tail(names))

\* the writes of the recommend node for the crop found at position k
StoreCropInfo(state, k) ==
    [state EXCEPT
        !.crop_requirements = CROPS_DATA[k].key,
        !.recommendations = @ \o Practices(CROPS_DATA[k].regenerative_practices),
        !.processing_steps = Append(@, "crop_recommendations_generated")]

\* a recommend node that also lists the practices of the first crop for a
\* recommendations query
get_crop_recommendations_lists(state, today, fault) ==
    IF fault
    THEN [state EXCEPT !.error_message = "Error obteniendo recomendaciones de cultivos"]
    ELSE IF /\ state.query_type = "crop_advice"
            /\ state.crop_mentioned # NoText
            /\ get_crop_info(state.crop_mentioned) # {}
    THEN StoreCropInfo(state, CHOOSE k \in get_crop_info(state.crop_mentioned) : TRUE)
    ELSE IF state.query_type = "recommendations"
    THEN [state EXCEPT
             !.season_info = IF get_current_season(today) \in AGRICULTURAL_CALENDAR
                             THEN get_current_season(today) ELSE "",
             !.recommendations = @ \o Practices(CROPS_DATA[1].regenerative_practices),
             !.processing_steps = Append(@, "crop_recommendations_generated")]
    ELSE [state EXCEPT !.processing_steps = Append(@, "crop_recommendations_generated")]

\* get_crop_recommendations of nodes/recommendations.py
get_crop_recommendations(state, today, fault) ==
    IF fault
    THEN [state EXCEPT !.error_message = "Error obteniendo recomendaciones de cultivos"]
    ELSE IF /\ state.query_type = "crop_advice"
            /\ state.crop_mentioned # NoText
            /\ get_crop_info(state.crop_mentioned) # {}
    THEN StoreCropInfo(state, CHOOSE k \in get_crop_info(state.crop_mentioned) : TRUE)
    ELSE IF state.query_type = "recommendations"
    THEN [state EXCEPT
             !.season_info = IF get_current_season(today) \in AGRICULTURAL_CALENDAR
                             THEN get_current_season(today) ELSE "",
             !.processing_steps = Append(@, "crop_recommendations_generated")]
    ELSE [state EXCEPT !.processing_steps = Append(@, "crop_recommendations_generated")]

\* GetGeneralAgricultureInfoTool._run(category, value=None): the table
\* whose text it returns
general_agriculture_info(category) ==
    IF category \in {<<"s","u","e","l","o">>, <<"s","u","e","l","o","s">>} THEN "SOIL_TYPES"
    ELSE IF category = <<"r","i","e","g","o">> THEN "irrigation_methods"
    ELSE IF category \in {<<"f","e","r","t","i","l","i","z","a","c","i","ó","n">>,
            <<"f","e","r","t","i","l","i","z","a","c","i","o","n">>} THEN "FERTILIZATION_GUIDE"
    ELSE IF category = <<"m","a","l","e","z","a","s">> THEN "weed_management_methods"
    ELSE IF category = <<"r","e","s","i","d","u","o","s">> THEN "residue_management"
    ELSE IF category \in {<<"p","r","á","c","t","i","c","a","s">>,
            <<"p","r","a","c","t","i","c","a","s">>} THEN "universal_practices"
    ELSE IF category = <<"p","l","a","g","a","s">> THEN "common_pests"
    ELSE "Categoría no reconocida"

\* The answer text is held as the sequence of its sections.
generate_status_response(state) ==
    <<"Estado Climático Actual">>
        \o (IF state.sensor_data # <<>> THEN <<"Lecturas de sensores">>
            ELSE <<"No hay datos de sensores disponibles">>)
        \o (IF state.climate_summary # NoSummary THEN <<"Resumen climático">> ELSE <<>>)
        \o (IF state.recommendations # <<>> THEN <<"Recomendaciones">> ELSE <<>>)

generate_history_response(state) ==
    <<"Análisis Histórico">>
        \o (IF state.time_period # NoPeriod THEN <<"Período analizado">> ELSE <<>>)
        \o (IF state.climate_summary # NoSummary THEN <<"Resumen climático">> ELSE <<>>)

generate_recommendations_response(state) ==
    <<"Recomendaciones Agrícolas">>
        \o (IF state.season_info # "" THEN <<"Temporada actual">> ELSE <<>>)
        \o (IF state.recommendations # <<>> THEN <<"Recomendaciones">>
            ELSE <<"No hay recomendaciones específicas">>)

generate_crop_advice_response(state) ==
    <<"Consejos de Cultivo">>
        \o (IF state.crop_mentioned # NoText /\ state.crop_requirements # NoText
            THEN <<"Información del cultivo">> ELSE <<>>)
        \o (IF state.recommendations # <<>> THEN <<"Prácticas regenerativas">> ELSE <<>>)

generate_general_response(state) == <<"Asistente de Agricultura Regenerativa">>

\* the confidence 0.9 of a generated answer, in tenths
HIGH_CONFIDENCE == 9

\* generate_final_response of nodes/response.py
generate_final_response(state, fault) ==
    IF fault
    THEN [state EXCEPT !.error_message = "Error generando respuesta final",
                       !.final_answer = <<"Lo siento, hubo un error procesando tu consulta">>]
    ELSE LET template ==
                 IF state.query_type = "current_status" THEN generate_status_response(state)
                 ELSE IF state.query_type = "climate_history" THEN generate_history_response(state)
                 ELSE IF state.query_type = "recommendations"
                 THEN generate_recommendations_response(state)
                 ELSE IF state.query_type = "crop_advice" THEN generate_crop_advice_response(state)
                 ELSE generate_general_response(state)
             requested ==
                 IF state.general_info_requested
                 THEN <<"Información agrícola solicitada",
                        general_agriculture_info(state.general_info_category)>>
                 ELSE <<>>
             suggested ==
                 IF state.suggest_general_info
                 THEN <<"Sugerencia técnica", general_agriculture_info(state.suggested_category)>>
                 ELSE <<>>
         IN  [state EXCEPT !.final_answer = template \o requested \o suggested,
                           !.confidence = HIGH_CONFIDENCE,
                           !.processing_steps = Append(@, "final_response_generated")]

\* a variant of handle_error that returns the state as it got it
handle_error_silent(state) == state

\* handle_error of nodes/control.py
handle_error(state) ==
    IF state.error_message # None
    THEN [state EXCEPT !.final_answer = <<"Error:", state.error_message,
                                          "Por favor, intenta reformular tu consulta">>,
                       !.confidence = 0]
    ELSE state

\* ------------------------------------------------------------------ graph

END == "END"

\* a routing after classification that sends every classified query to the
\* fetch stage
route_after_classification_fetches(state) ==
    IF state.error_message # None THEN "error"
    ELSE IF state.query_type \in {"current_status", "climate_history", "crop_advice",
                                  "recommendations"} THEN "fetch_data"
    ELSE "end"

route_after_classification(state) ==
    IF state.error_message # None THEN "error"
    ELSE IF state.query_type \in {"current_status", "climate_history"} THEN "fetch_data"
    ELSE IF state.query_type = "crop_advice" THEN "crop_advice"
    ELSE IF state.query_type = "recommendations" THEN "recommendations"
    ELSE "end"

route_after_fetch_data(state) ==
    IF state.error_message # None THEN "error"
    ELSE IF state.sensor_data # <<>> THEN "analyze"
    ELSE IF state.query_type = "crop_advice" THEN "crop_advice"
    ELSE IF state.query_type = "recommendations" THEN "recommendations"
    ELSE "end"

\* a variant of route_after_analysis that ends the run as the routing after
\* fetch does
route_after_analysis_ends(state) ==
    IF state.error_message # None THEN "error"
    ELSE IF state.query_type = "crop_advice" THEN "crop_advice"
    ELSE IF state.query_type = "recommendations" THEN "recommendations"
    ELSE "end"

route_after_analysis(state) ==
    IF state.error_message # None THEN "error"
    ELSE IF state.query_type = "crop_advice" THEN "crop_advice"
    ELSE IF state.query_type = "recommendations" THEN "recommendations"
    ELSE "generate_response"

\* a variant of route_after_crop_recommendations that does not look at
\* error_message
route_after_crop_recommendations_blind(state) == "generate_response"

route_after_crop_recommendations(state) ==
    IF state.error_message # None THEN "error" ELSE "generate_response"

route_after_final_response(state) ==
    IF state.error_message # None THEN "error"
    ELSE IF state.final_answer # <<>> THEN "end"
    ELSE "error"

\* path maps in which the error key leads back to the entry point
Edge_error_restarts(key) ==
    CASE key = "fetch_data" -> "fetch_sensor_data"
      [] key = "analyze" -> "analyze_climate_data"
      [] key \in {"crop_advice", "recommendations"} -> "get_crop_recommendations"
      [] key = "generate_response" -> "generate_final_response"
      [] key = "error" -> "classify_query"
      [] key = "end" -> END

\* the path maps of add_conditional_edges in _build_graph
Edge(key) ==
    CASE key = "fetch_data" -> "fetch_sensor_data"
      [] key = "analyze" -> "analyze_climate_data"
      [] key \in {"crop_advice", "recommendations"} -> "get_crop_recommendations"
      [] key = "generate_response" -> "generate_final_response"
      [] key = "error" -> "handle_error"
      [] key = "end" -> END

\* the record process_query builds from the final state of the graph
ResponseOf(result) ==
    [answer |-> result.final_answer,
     confidence |-> result.confidence,
     query_type |-> result.query_type,
     processing_steps |-> result.processing_steps,
     error_message |-> result.error_message]

\* the record of the except branch of process_query
FallbackResponse ==
    [answer |-> <<"Lo siento, hubo un error procesando tu consulta">>,
     confidence |-> 0,
     query_type |-> "error",
     processing_steps |-> <<>>,
     error_message |-> "str(e)"]

\* ----------------------------------------------------------------- inputs

\* longest query, in phrases
MaxWords == 2

\* most rows the telemetry store answers with
MaxReadings == 2

RECURSIVE Sentences(_)
Sentences(n) ==
    IF n = 0 THEN {<<>>}
    ELSE LET S == Sentences(n - 1)
         IN  S \cup {IF s = <<>> THEN w ELSE s \o <<" ">> \o w :
                        s \in S,
                        w \in {<<"t","e","m","p","e","r","a","t","u","r","a">>,
                                <<"ú","l","t","i","m","a"," ","s","e","m","a","n","a">>,
                                <<"c","o","n","s","e","j","o">>, <<"a","r","r","o","z">>,
                                <<"p","l","á","t","a","n","o">>,
                               <<"s","u","e","l","o">>, <<"h","o","l","a">>,
                                       <<"e","n"," ","a","g","u","a","z","u","l">>}}

Queries ==
    Sentences(MaxWords)
        \cup {<<"¿","q","u","é"," ","d","e","b","e","r","í","a"," ","s","e","m","b","r","a","r"," ","e","s","t","a"," ","t","e","m","p","o","r","a","d","a","?">>,
                <<"¿","c","u","á","l"," ","e","s"," ","l","a"," ","t","e","m","p","e","r","a","t","u","r","a"," ","a","c","t","u","a","l"," ","d","e","l"," ","a","r","r","o","z","?">>,
              <<"m","a","i","z">>, <<"ú","l","t","i","m","o","s"," ","5"," ","d","í","a","s">>}

\* rows of sensor_readings LEFT JOIN sensors, newest first: timestamp "bad"
\* is a value pd.to_datetime rejects, NoText a NULL column
Readings ==
    <<[timestamp |-> "ok", temperature |-> 28, humidity |-> 78,
       location |-> <<"a","g","u","a","z","u","l">>, location_description |-> NoText],
      [timestamp |-> "ok", temperature |-> 38, humidity |-> 30,
       location |-> <<"y","o","p","a","l">>, location_description |-> <<"a","g","u","a","z","u","l">>],
      [timestamp |-> "bad", temperature |-> 10, humidity |-> 95,
       location |-> NoText, location_description |-> NoText]>>

\* the rows of Readings at the positions S, in the order of the store
\* (ORDER BY sr.timestamp DESC)
RECURSIVE RowsAt(_)
RowsAt(S) ==
    IF S = {} THEN <<>> ELSE <<Readings[Min(S)]>> \o RowsAt(S \ {Min(S)})

\* the answers of the store with at most n rows
Batches(n) ==
    {RowsAt(S) : S \in {T \in SUBSET (1..Len(Readings)) : Cardinality(T) <= n}}

\* ------------------------------------------------------------------ state

VARIABLES
    today,          \* datetime.now() of the request
    state,          \* the AgricultureState of the run
    node,           \* the node the graph runs next, or END
    executed,       \* the nodes run so far, in order
    outcome,        \* of process_query: "running", "returned" or "raised"
    response,       \* the record process_query returned
    store_failed,   \* the telemetry store failed while the fetch node queried it
    engine_raised,  \* the analysis engine raised while the analyze node used it
    requested,      \* the date range the fetch node asked the telemetry store for
    resolver,       \* a call of DateParser.parse_time_expression: text and result
    runs,           \* two invocations of process_query in one process
    tables          \* the reference tables the invocations of the process share

vars ==
    <<today, state, node, executed, outcome, response, store_failed, engine_raised,
      requested, resolver, runs, tables>>

\* no call of the resolver on its own
NoCall == [text |-> <<>>, period |-> NoPeriod, called |-> FALSE]

NoResponse ==
    [answer |-> <<>>, confidence |-> 0, query_type |-> "", processing_steps |-> <<>>,
     error_message |-> None]

Init ==
    /\ today \in {Date(2024, 6, 5), Date(2024, 11, 20)}
    /\ \E user_query \in Queries : state = create_initial_state(user_query, today)
    /\ node = "classify_query"
    /\ executed = <<>>
    /\ outcome = "running"
    /\ response = NoResponse
    /\ store_failed = FALSE
    /\ engine_raised = FALSE
    /\ requested = NoPeriod
    /\ resolver = NoCall
    /\ runs = <<>>
    /\ tables = ReferenceTables

\* the routing function of the conditional edge that leaves a node
Route(name, result) ==
    CASE name = "classify_query" -> route_after_classification(result)
      [] name = "fetch_sensor_data" -> route_after_fetch_data(result)
      [] name = "analyze_climate_data" -> route_after_analysis(result)
      [] name = "get_crop_recommendations" -> route_after_crop_recommendations(result)
      [] name = "generate_final_response" -> route_after_final_response(result)
      [] name = "handle_error" -> "end"

\* one node of the graph has run: its return value is written to the
\* channels and the conditional edge picks the next node
Step(name, result) ==
    /\ state' = StateGraph(result)
    /\ node' = Edge(Route(name, result))
    /\ executed' = Append(executed, name)
    /\ UNCHANGED <<today, outcome, response, resolver, runs, tables>>

Classify ==
    /\ outcome = "running" /\ node = "classify_query"
    /\ \E fault \in BOOLEAN : Step("classify_query", classify_query(state, today, fault))
    /\ UNCHANGED <<store_failed, engine_raised, requested>>

\* start_date and end_date of the get_historical_data call the fetch node
\* makes through GetHistoricalDataTool.get_structured; no range when the
\* node issues no range query
RequestedRange(s, now) ==
    IF s.query_type = "climate_history" /\ s.time_period # NoPeriod
    THEN parse_time_expression(extract_time_expression(s.user_query), now)
    ELSE NoPeriod

\* the fetch node reaches the store on these branches
QueriesStore(s) ==
    \/ s.query_type \in {"current_status", "recommendations", "crop_advice"}
    \/ /\ s.query_type = "climate_history"
       /\ s.time_period # NoPeriod
       /\ parse_time_expression(extract_time_expression(s.user_query), today) # NoPeriod

Fetch ==
    /\ outcome = "running" /\ node = "fetch_sensor_data"
    /\ \E fault \in BOOLEAN, available \in BOOLEAN, rows \in Batches(MaxReadings) :
          /\ available \/ rows = <<>>
          /\ Step("fetch_sensor_data", fetch_sensor_data(state, today, available, rows, fault))
          /\ store_failed' = (~fault /\ ~available /\ QueriesStore(state))
          /\ requested' = IF fault THEN requested ELSE RequestedRange(state, today)
    /\ UNCHANGED engine_raised

Analyze ==
    /\ outcome = "running" /\ node = "analyze_climate_data"
    /\ \E fault \in BOOLEAN, library_raises \in BOOLEAN :
          /\ Step("analyze_climate_data", analyze_climate_data(state, library_raises, fault))
          /\ engine_raised' =
                 /\ ~fault
                 /\ state.sensor_data # <<>>
                 /\ EngineFault(state.sensor_data, library_raises)
    /\ UNCHANGED <<store_failed, requested>>

Recommend ==
    /\ outcome = "running" /\ node = "get_crop_recommendations"
    /\ \E fault \in BOOLEAN :
          Step("get_crop_recommendations", get_crop_recommendations(state, today, fault))
    /\ UNCHANGED <<store_failed, engine_raised, requested>>

Respond ==
    /\ outcome = "running" /\ node = "generate_final_response"
    /\ \E fault \in BOOLEAN :
          Step("generate_final_response", generate_final_response(state, fault))
    /\ UNCHANGED <<store_failed, engine_raised, requested>>

HandleError ==
    /\ outcome = "running" /\ node = "handle_error"
    /\ Step("handle_error", handle_error(state))
    /\ UNCHANGED <<store_failed, engine_raised, requested>>

\* graph.invoke returned: process_query builds the record and returns it
Return ==
    /\ outcome = "running" /\ node = END
    /\ outcome' = "returned"
    /\ response' = ResponseOf(state)
    /\ UNCHANGED <<today, state, node, executed, store_failed, engine_raised, requested,
                   resolver, runs, tables>>

\* graph.invoke raised: the except branch of process_query
InvokeRaises ==
    /\ outcome = "running" /\ node # END
    /\ outcome' = "returned"
    /\ response' = FallbackResponse
    /\ UNCHANGED <<today, state, node, executed, store_failed, engine_raised, requested,
                   resolver, runs, tables>>

Next ==
    \/ Classify
    \/ Fetch
    \/ Analyze
    \/ Recommend
    \/ Respond
    \/ HandleError
    \/ Return
    \/ InvokeRaises

Spec == Init /\ [][Next]_vars

\* graph.invoke is synchronous: process_query runs every step that is
\* enabled until it returns.  This is WF_vars(Next) with its ENABLED written
\* out: Return or InvokeRaises can be taken exactly while outcome = "running"
SpecLive == Spec /\ ([]<>(outcome # "running") \/ []<><<Next>>_vars)

\* --------------------------------------------- the resolver called alone

\* largest day count N written in "últimos N días" and "próximos N días"
MaxDays == 3

\* a day count that takes the window out of date.min .. date.max
BeyondCalendar == 3000000

Blank(a, b) == a \o <<" ">> \o b

LastWeekWords == {<<"ú","l","t","i","m","a"," ","s","e","m","a","n","a">>,
        <<"u","l","t","i","m","a"," ","s","e","m","a","n","a">>,
        <<"s","e","m","a","n","a"," ","p","a","s","a","d","a">>}
NextWeekWords == {<<"p","r","ó","x","i","m","a"," ","s","e","m","a","n","a">>,
        <<"p","r","o","x","i","m","a"," ","s","e","m","a","n","a">>,
        <<"s","i","g","u","i","e","n","t","e"," ","s","e","m","a","n","a">>}

DayCounts == (0..MaxDays) \cup {BeyondCalendar}

\* "últimos N días" and "próximos N días"
UltimosDias(n) == Blank(<<"ú","l","t","i","m","o","s">>, Blank(DigitsOf(n, 1), <<"d","í","a","s">>))
ProximosDias(n) == Blank(<<"p","r","ó","x","i","m","o","s">>, Blank(DigitsOf(n, 1), <<"d","í","a","s">>))

\* DD/MM/YYYY or DD-MM-YYYY
NumericDate(d, m, y, sep) ==
    DigitsOf(d, 2) \o <<sep>> \o DigitsOf(m, 2) \o <<sep>> \o DigitsOf(y, 4)

\* days 15, 29, 30, 31 of February, April and a month 13, in two years
NumericDates ==
    {NumericDate(d, m, y, sep) : d \in {15, 29, 30, 31}, m \in {2, 4, 13},
                                 y \in {2023, 2024}, sep \in {"/", "-"}}

\* one expression of each pattern family, with the place of its family in
\* the order of parse_time_expression (code) and in the order literal,
\* named period, N days, numeric date, textual date, weekday (listed)
Expressions ==
    {[text |-> <<"h","o","y">>, code |-> 1, listed |-> 1],
     [text |-> <<"a","y","e","r">>, code |-> 1, listed |-> 1],
     [text |-> NumericDate(15, 4, 2024, "/"), code |-> 2, listed |-> 4],
     [text |-> <<"1","5"," ","d","e"," ","m","a","r","z","o">>, code |-> 3, listed |-> 5],
     [text |-> <<"ú","l","t","i","m","a"," ","s","e","m","a","n","a">>, code |-> 4, listed |-> 2],
     [text |-> <<"p","r","ó","x","i","m","o"," ","m","e","s">>, code |-> 4, listed |-> 2],
     [text |-> UltimosDias(MaxDays), code |-> 5, listed |-> 3],
     [text |-> <<"l","u","n","e","s">>, code |-> 6, listed |-> 6]}

\* two expressions of different families in one text
TwoExpressions ==
    {Blank(p[1].text, p[2].text) :
        p \in {q \in Expressions \X Expressions : q[1].code # q[2].code}}

ResolverTexts ==
    {<<"h","o","y">>, <<"a","y","e","r">>, <<"m","a","ñ","a","n","a">>, <<"m","a","n","a","n","a">>,
            <<"a","n","t","e","a","y","e","r">>, <<"a","n","t","e"," ","a","y","e","r">>,
            <<"p","a","s","a","d","o"," ","m","a","ñ","a","n","a">>,
      <<"p","a","s","a","d","o"," ","m","a","n","a","n","a">>}
        \cup LastWeekWords \cup NextWeekWords
        \cup {<<"ú","l","t","i","m","o"," ","m","e","s">>,
                <<"m","e","s"," ","p","a","s","a","d","o">>,
                <<"p","r","ó","x","i","m","o"," ","m","e","s">>,
                <<"s","i","g","u","i","e","n","t","e"," ","m","e","s">>}
        \cup {UltimosDias(n) : n \in DayCounts} \cup {ProximosDias(n) : n \in DayCounts}
        \cup NumericDates
        \cup {<<"1","5"," ","d","e"," ","m","a","r","z","o">>,
                <<"3","1"," ","d","e"," ","a","b","r","i","l">>,
                <<"1","5"," ","m","a","r","z","o">>,
                <<"1","5"," ","d","e"," ","m","a","r","z","o"," ","d","e"," ","2","0","2","4">>}
        \cup {DIAS_SEMANA[k].name : k \in 1..Len(DIAS_SEMANA)}
        \cup TwoExpressions \cup {<<>>, <<"h","o","l","a">>}

\* the graph is not running
NoRequest ==
    /\ state = create_initial_state(<<>>, today)
    /\ node = END
    /\ executed = <<>>
    /\ outcome = "idle"
    /\ response = NoResponse
    /\ store_failed = FALSE
    /\ engine_raised = FALSE
    /\ requested = NoPeriod
    /\ tables = ReferenceTables

\* 'now': the seven days of a week that holds a 29 February and the end of
\* a month, and the last day of a year
InitResolver ==
    /\ today \in {FromOrdinal(ToOrdinal(Date(2024, 2, 26)) + k) : k \in 0..6}
                    \cup {Date(2024, 12, 31)}
    /\ \E text \in ResolverTexts : resolver = [NoCall EXCEPT !.text = text]
    /\ NoRequest
    /\ runs = <<>>

\* DateParser.parse_time_expression(text) returns
Resolve ==
    /\ ~resolver.called
    /\ resolver' = [resolver EXCEPT !.period = parse_time_expression(resolver.text, today),
                                    !.called = TRUE]
    /\ UNCHANGED <<today, state, node, executed, outcome, response, store_failed,
                   engine_raised, requested, runs, tables>>

SpecResolver == InitResolver /\ [][Resolve]_vars

\* the day a "%Y-%m-%d" text names, as an ordinal
IsoOrdinal(text) ==
    ToOrdinal(Date(ToInt(SubSeq(text, 1, 4)), ToInt(SubSeq(text, 6, 7)),
                   ToInt(SubSeq(text, 9, 10))))

\* the range from the day at offset a to the day at offset b from today
Window(a, b) ==
    [start |-> Strftime(FromOrdinal(ToOrdinal(today) + a)),
     end |-> Strftime(FromOrdinal(ToOrdinal(today) + b))]

\* ------------------------------------------ two invocations in one process

\* what the collaborators of one invocation answer, every time they are
\* asked: the store (available, rows), the numeric library of the analysis
\* engine (library_raises), and the node whose body raises, or "graph" when
\* graph.invoke itself raises
Answers ==
    LET fine == [available |-> TRUE, rows |-> RowsAt({1, 2}), library_raises |-> FALSE,
                 faulty |-> None]
    IN  {fine,
         [fine EXCEPT !.rows = RowsAt({3})],
         [fine EXCEPT !.available = FALSE, !.rows = <<>>],
         [fine EXCEPT !.faulty = "fetch_sensor_data"],
         [fine EXCEPT !.faulty = "graph"]}

\* an invocation process_query(query) that has not started
Waiting(query, w, now) ==
    [query |-> query, answers |-> w, state |-> create_initial_state(<<>>, now),
     node |-> END, executed |-> <<>>, outcome |-> "idle", response |-> NoResponse]

\* the node runs on the state of its invocation
RunNode(name, s, now, w) ==
    CASE name = "classify_query" -> classify_query(s, now, w.faulty = name)
      [] name = "fetch_sensor_data" ->
             fetch_sensor_data(s, now, w.available, w.rows, w.faulty = name)
      [] name = "analyze_climate_data" ->
             analyze_climate_data(s, w.library_raises, w.faulty = name)
      [] name = "get_crop_recommendations" ->
             get_crop_recommendations(s, now, w.faulty = name)
      [] name = "generate_final_response" -> generate_final_response(s, w.faulty = name)
      [] name = "handle_error" -> handle_error(s)

\* a variant in which the three lists of the state are objects made once
\* for the process: a new invocation finds in them what the other one left
Started_lists_made_once(rs, i, now) ==
    [rs[i] EXCEPT
        !.state = [create_initial_state(rs[i].query, now) EXCEPT
                      !.sensor_data = rs[3 - i].state.sensor_data,
                      !.recommendations = rs[3 - i].state.recommendations,
                      !.processing_steps = rs[3 - i].state.processing_steps],
        !.node = "classify_query",
        !.outcome = "running"]

\* process_query builds the state of invocation i and hands it to
\* graph.invoke
Started(rs, i, now) ==
    [rs[i] EXCEPT !.state = create_initial_state(rs[i].query, now),
                  !.node = "classify_query",
                  !.outcome = "running"]

\* the return value of the node of r is written to the channels and the
\* conditional edge picks the next node
Moved(r, result) ==
    [r EXCEPT !.state = StateGraph(result),
              !.node = Edge(Route(r.node, result)),
              !.executed = Append(r.executed, r.node)]

\* one step of an invocation: graph.invoke raises, or the next node runs
\* and the conditional edge picks its successor, or graph.invoke returns
\* and process_query builds its record
Advance(r, now) ==
    IF r.answers.faulty = "graph"
    THEN [r EXCEPT !.outcome = "returned", !.response = FallbackResponse]
    ELSE IF r.node = END
    THEN [r EXCEPT !.outcome = "returned", !.response = ResponseOf(r.state)]
    ELSE Moved(r, RunNode(r.node, r.state, now, r.answers))

\* a variant in which the nodes of every invocation work on the state of
\* the invocation that started last
Invocation_latest_state(rs, i) ==
    IF rs[3 - i].outcome = "running" /\ rs[3 - i].executed = <<>>
    THEN [rs[i] EXCEPT !.state = rs[3 - i].state]
    ELSE rs[i]

\* the record of invocation i: initial_state is a local of process_query
Invocation(rs, i) == rs[i]

RECURSIVE Alone(_, _, _)
\* an invocation after k steps, with no other invocation in the process
Alone(r, now, k) == IF k = 0 THEN r ELSE Advance(Alone(r, now, k - 1), now)

InitPair ==
    /\ today = Date(2024, 6, 5)
    /\ NoRequest
    /\ resolver = NoCall
    /\ \E q1, q2 \in {<<"t","e","m","p","e","r","a","t","u","r","a">>,
            <<"ú","l","t","i","m","a"," ","s","e","m","a","n","a">>, Blank(<<"c","o","n","s","e","j","o">>,
            <<"a","r","r","o","z">>), <<"h","o","l","a">>} :
          \E w1, w2 \in Answers :
              runs = <<Waiting(q1, w1, today), Waiting(q2, w2, today)>>

\* process_query is called for invocation i
Begin(i) ==
    /\ runs[i].outcome = "idle"
    /\ runs' = [runs EXCEPT ![i] = Started(runs, i, today)]
    /\ UNCHANGED <<today, state, node, executed, outcome, response, store_failed,
                   engine_raised, requested, resolver, tables>>

\* invocation i takes one step; no node writes to the reference tables
Stage(i) ==
    /\ runs[i].outcome = "running"
    /\ runs' = [runs EXCEPT ![i] = Advance(Invocation(runs, i), today)]
    /\ UNCHANGED <<today, state, node, executed, outcome, response, store_failed,
                   engine_raised, requested, resolver, tables>>

SpecPair == InitPair /\ [][\E i \in 1..2 : Begin(i) \/ Stage(i)]_vars

\* ---------------------------------- the suitability lookup, called alone

\* highest temperature (°C) and relative humidity (%) of a reading
MaxTemperature == 40

MaxHumidity == 100

\* the agent state that reaches analyze_climate_data with telemetry of one
\* reading, or of that reading and a second one of 28 °C and 78 %
InitLookup ==
    /\ today = Date(2024, 6, 5)
    /\ node = "analyze_climate_data"
    /\ executed = <<>>
    /\ outcome = "running"
    /\ response = NoResponse
    /\ store_failed = FALSE
    /\ engine_raised = FALSE
    /\ requested = NoPeriod
    /\ resolver = NoCall
    /\ runs = <<>>
    /\ tables = ReferenceTables
    /\ \E t \in 0..MaxTemperature, h \in 0..MaxHumidity, n \in 1..2 :
          state = [create_initial_state(<<"t","e","m","p","e","r","a","t","u","r","a">>, today) EXCEPT
                      !.sensor_data =
                          SubSeq(<<[Readings[1] EXCEPT !.temperature = t, !.humidity = h],
                                   Readings[1]>>, 1, n)]

\* analyze_climate_data(state) returns
AnalyzeTelemetry ==
    /\ state.processing_steps = <<>>
    /\ state' = analyze_climate_data(state, FALSE, FALSE)
    /\ UNCHANGED <<today, node, executed, outcome, response, store_failed,
                   engine_raised, requested, resolver, runs, tables>>

SpecLookup == InitLookup /\ [][AnalyzeTelemetry]_vars

\* ----------------------------------------------------------------- claims

\* the node has run in this request
Ran(name) == \E k \in 1..Len(executed) : executed[k] = name

\* the node is the last one that has run
LastRan(name) == executed # <<>> /\ executed[Len(executed)] = name

\* C1: process_query never raises, and whenever the record it returns has a
\* non-null error_message, its confidence is 0 and its answer is a
\* non-empty text.
C1_ErrorRecord ==
    /\ outcome # "raised"
    /\ (outcome = "returned" /\ response.error_message # None)
          => (response.confidence = 0 /\ response.answer # <<>>)

\* a request whose record carries the error message of a stage, built by
\* the error stage
C1_Witness ==
    /\ outcome = "returned"
    /\ response.error_message \notin {None, FallbackResponse.error_message}
    /\ LastRan("handle_error")

\* C2 (as the claim states it): after classify completes with no
\* error_message, the next stage is fetch for current_status and
\* climate_history, recommend for crop_advice and recommendations, and
\* respond for any other query_type.
C2_NextAfterClassify ==
    (LastRan("classify_query") /\ state.error_message = None)
        => node = IF state.query_type \in {"current_status", "climate_history"}
                  THEN "fetch_sensor_data"
                  ELSE IF state.query_type \in {"crop_advice", "recommendations"}
                  THEN "get_crop_recommendations"
                  ELSE "generate_final_response"

\* C3 (as the claim states it): after fetch completes with no error_message,
\* the next stage is analyze when sensor_data is non-empty, otherwise
\* recommend for crop_advice and recommendations, otherwise respond.
C3_NextAfterFetch ==
    (LastRan("fetch_sensor_data") /\ state.error_message = None)
        => node = IF state.sensor_data # <<>> THEN "analyze_climate_data"
                  ELSE IF state.query_type \in {"crop_advice", "recommendations"}
                  THEN "get_crop_recommendations"
                  ELSE "generate_final_response"

\* C4: after analyze completes with no error_message, the next stage is
\* recommend for crop_advice and recommendations and respond for every other
\* query_type; it is never the terminal state.
C4_NextAfterAnalyze ==
    (LastRan("analyze_climate_data") /\ state.error_message = None)
        => /\ node = IF state.query_type \in {"crop_advice", "recommendations"}
                     THEN "get_crop_recommendations"
                     ELSE "generate_final_response"
           /\ node # END

\* analyze has completed without an error and respond is next
C4_Witness ==
    /\ LastRan("analyze_climate_data")
    /\ state.error_message = None
    /\ state.climate_summary # NoSummary
    /\ node = "generate_final_response"

\* C5 (as the claim states it): the terminal state is entered only from
\* respond with a non-empty final_answer and no error, or from the error
\* stage; so a run that ends with error_message null has executed respond,
\* has a non-empty final_answer and has confidence 0.9.
C5_TerminalOnlyAfterRespond ==
    node = END
        => /\ \/ /\ LastRan("generate_final_response")
                 /\ state.final_answer # <<>>
                 /\ state.error_message = None
              \/ LastRan("handle_error")
           /\ state.error_message = None
                 => /\ Ran("generate_final_response")
                    /\ state.final_answer # <<>>
                    /\ state.confidence = HIGH_CONFIDENCE

\* C6: error_message is sticky.  The stage that sets it is followed by the
\* error stage whatever the other fields are; once it is set only the
\* error stage runs, followed by the terminal state; and no field other
\* than final_answer and confidence changes, error_message included.
C6_StickyError ==
    [][/\ (state.error_message = None /\ state'.error_message # None)
              => node' = "handle_error"
       /\ state.error_message # None
              => /\ state' = [state EXCEPT !.final_answer = state'.final_answer,
                                           !.confidence = state'.confidence]
                 /\ executed' # executed
                        => /\ executed' = Append(executed, "handle_error")
                           /\ node' = END]_vars

\* a run that went through the error stage while data had been fetched
C6_Witness ==
    /\ state.error_message # None
    /\ LastRan("handle_error")
    /\ Ran("fetch_sensor_data")
    /\ node = END

\* C7 (as the claim states it): if the telemetry store fails during fetch,
\* error_message becomes non-null, the run goes from fetch to the error
\* stage and the terminal state, no analyze, recommend or respond stage
\* runs and the confidence returned is 0.
C7_StoreFailureIsError ==
    store_failed
        => /\ state.error_message # None
           /\ node \in {"handle_error", END}
           /\ ~Ran("analyze_climate_data")
           /\ ~Ran("get_crop_recommendations")
           /\ ~Ran("generate_final_response")
           /\ outcome = "returned" => response.confidence = 0

\* C8 (as the claim states it): if the analysis engine raises while analyze
\* runs on non-empty telemetry, error_message becomes non-null and the run
\* ends through the error stage, without recommend or respond.
C8_EngineFaultIsError ==
    engine_raised
        => /\ state.error_message # None
           /\ node \in {"handle_error", END}
           /\ ~Ran("get_crop_recommendations")
           /\ ~Ran("generate_final_response")

\* C8 (amended): if the analysis engine raises while analyze runs on
\* non-empty telemetry, the engine catches the exception and returns its
\* empty analysis: analyze completes with error_message null, the empty
\* analysis as climate_summary and the advice that more data are needed as
\* the last recommendation, and the run continues with recommend or respond.
C8_EngineFaultGivesEmptyAnalysis ==
    (engine_raised /\ LastRan("analyze_climate_data"))
        => /\ state.error_message = None
           /\ state.climate_summary = empty_analysis
           /\ state.recommendations # <<>>
           /\ state.recommendations[Len(state.recommendations)] = Rec("need_more_data", "")
           /\ node \in {"get_crop_recommendations", "generate_final_response"}

\* the engine raised and the run ended with an answer and no error
C8_Witness ==
    /\ engine_raised
    /\ outcome = "returned"
    /\ response.error_message = None
    /\ response.confidence = HIGH_CONFIDENCE
    /\ state.climate_summary = empty_analysis

\* C9 (as the claim states it): the query "¿qué debería sembrar esta
\* temporada?" is classified as recommendations, never runs fetch or
\* analyze, and when no stage fails it reaches the terminal state through
\* respond with a non-empty final_answer and confidence 0.9.
C9_QueSembrar ==
    state.user_query = <<"¿","q","u","é"," ","d","e","b","e","r","í","a"," ","s","e","m","b","r","a","r"," ","e","s","t","a"," ","t","e","m","p","o","r","a","d","a","?">>
        => /\ ~Ran("fetch_sensor_data")
           /\ ~Ran("analyze_climate_data")
           /\ state.processing_steps # <<>> => state.query_type = "recommendations"
           /\ (node = END /\ state.error_message = None)
                 => /\ Ran("generate_final_response")
                    /\ state.final_answer # <<>>
                    /\ state.confidence = HIGH_CONFIDENCE

\* the first category whose cue occurs decides, in the order current status,
\* history, advice, crop name, general; the crop name is kept beside a
\* current-status cue
CuesDecide(status, history, advice, crop, query_type, crop_mentioned) ==
    /\ status => query_type = "current_status"
    /\ (~status /\ history) => query_type = "climate_history"
    /\ (~status /\ ~history /\ advice) => query_type = "recommendations"
    /\ (~status /\ ~history /\ ~advice)
          => query_type = IF crop THEN "crop_advice" ELSE "general"
    /\ (status /\ crop) => crop_mentioned # NoText

CuesOf(query_lower, query_type, crop_mentioned) ==
    CuesDecide(AnyIn(CurrentStatusWords, query_lower), AnyIn(HistoryWords, query_lower),
               AnyIn(AdviceWords, query_lower), AnyIn(CropWords, query_lower),
               query_type, crop_mentioned)

\* C10: the classifier takes the first category that matches, in the order
\* current status, history, advice, crop name, general; a query with a
\* current-status cue and a crop name is current_status, and crop_mentioned
\* is still extracted.
C10_ClassifierPriority ==
    state.processing_steps # <<>>
        => CuesOf(Lower(state.user_query), state.query_type, state.crop_mentioned)

\* the query of the claim, classified
C10_Witness ==
    /\ state.user_query = <<"¿","c","u","á","l"," ","e","s"," ","l","a"," ","t","e","m","p","e","r","a","t","u","r","a"," ","a","c","t","u","a","l"," ","d","e","l"," ","a","r","r","o","z","?">>
    /\ state.query_type = "current_status"
    /\ state.crop_mentioned = <<"a","r","r","o","z">>

\* C11 (as the claim states it): a classified query in which a name of the
\* crop vocabulary was found (crop_mentioned is not null), and which has no
\* current-status, historical or advisory cue, has query_type crop_advice.
C11_CropNameIsCropAdvice ==
    (/\ state.processing_steps # <<>>
     /\ state.crop_mentioned # NoText
     /\ ~AnyIn(CurrentStatusWords, Lower(state.user_query))
     /\ ~AnyIn(HistoryWords, Lower(state.user_query))
     /\ ~AnyIn(AdviceWords, Lower(state.user_query)))
        => state.query_type = "crop_advice"

\* C14 (as the claim states it): every range the resolver returns has
\* start <= end, for every input text, "últimos N días" and "próximos N
\* días" with every N >= 0 included.
C14_StartNotAfterEnd ==
    (resolver.called /\ resolver.period # NoPeriod)
        => IsoOrdinal(resolver.period.start) <= IsoOrdinal(resolver.period.end)

\* C15: each literal day word resolves to the single day at its offset
\* from today: hoy 0, ayer -1, mañana +1, anteayer and ante ayer -2,
\* pasado mañana +2
C15_LiteralDayOffsets ==
    resolver.called =>
        /\ resolver.text = <<"h","o","y">> => resolver.period = Window(0, 0)
        /\ resolver.text = <<"a","y","e","r">> => resolver.period = Window(-1, -1)
        /\ resolver.text = <<"m","a","ñ","a","n","a">> => resolver.period = Window(1, 1)
        /\ resolver.text \in {<<"a","n","t","e","a","y","e","r">>,
                <<"a","n","t","e"," ","a","y","e","r">>} => resolver.period = Window(-2, -2)
        /\ resolver.text = <<"p","a","s","a","d","o"," ","m","a","ñ","a","n","a">> => resolver.period = Window(2, 2)

C17_WindowOfEveryCount ==
    resolver.called =>
        \A n \in DayCounts \ {0} :
            /\ resolver.text = UltimosDias(n) =>
                   /\ resolver.period # NoPeriod
                   /\ IsoOrdinal(resolver.period.start) = ToOrdinal(today) - (n - 1)
                   /\ IsoOrdinal(resolver.period.end) = ToOrdinal(today)
            /\ resolver.text = ProximosDias(n) =>
                   /\ resolver.period # NoPeriod
                   /\ IsoOrdinal(resolver.period.start) = ToOrdinal(today)
                   /\ IsoOrdinal(resolver.period.end) = ToOrdinal(today) + (n - 1)

\* C17: for every N >= 1 whose window lies between date.min and date.max,
\* "últimos N días" is the window from today - (N - 1) to today and
\* "próximos N días" the window from today to today + (N - 1); for a larger
\* N the resolver finds no match
C17_WindowInsideCalendar ==
    resolver.called =>
        \A n \in DayCounts \ {0} :
            /\ resolver.text = UltimosDias(n) =>
                   resolver.period = IF ValidOrdinal(ToOrdinal(today) - (n - 1))
                                     THEN Window(-(n - 1), 0) ELSE NoPeriod
            /\ resolver.text = ProximosDias(n) =>
                   resolver.period = IF ValidOrdinal(ToOrdinal(today) + (n - 1))
                                     THEN Window(0, n - 1) ELSE NoPeriod

C17_Witness ==
    /\ resolver.called
    /\ resolver.text = UltimosDias(MaxDays)
    /\ resolver.period = Window(-(MaxDays - 1), 0)

\* C18: on every day of the week, "última semana" is the Monday to Sunday
\* of the week before the week of today and "próxima semana" the Monday to
\* Sunday of the week after it: seven days that start on a Monday (the
\* ordinals of Mondays are 1 modulo 7) and do not hold today
C18_CalendarWeeks ==
    resolver.called =>
        /\ resolver.text \in LastWeekWords =>
               /\ resolver.period # NoPeriod
               /\ IsoOrdinal(resolver.period.start) % 7 = 1
               /\ IsoOrdinal(resolver.period.end) = IsoOrdinal(resolver.period.start) + 6
               /\ IsoOrdinal(resolver.period.end) < ToOrdinal(today)
               /\ ToOrdinal(today) <= IsoOrdinal(resolver.period.end) + 7
        /\ resolver.text \in NextWeekWords =>
               /\ resolver.period # NoPeriod
               /\ IsoOrdinal(resolver.period.start) % 7 = 1
               /\ IsoOrdinal(resolver.period.end) = IsoOrdinal(resolver.period.start) + 6
               /\ ToOrdinal(today) < IsoOrdinal(resolver.period.start)
               /\ IsoOrdinal(resolver.period.start) <= ToOrdinal(today) + 7

\* última semana asked on Wednesday 2024-02-28: 2024-02-19 to 2024-02-25
C18_Witness ==
    /\ resolver.called
    /\ today = Date(2024, 2, 28)
    /\ resolver.text = <<"ú","l","t","i","m","a"," ","s","e","m","a","n","a">>
    /\ resolver.period = Window(-9, -3)

\* C19: a text that is one numeric date DD/MM/YYYY or DD-MM-YYYY resolves
\* to the single day of that date when it is a date of the calendar, and
\* to no match (no exception leaves the resolver) when it is not
C19_NumericDates ==
    resolver.called =>
        \A d \in {15, 29, 30, 31}, m \in {2, 4, 13}, y \in {2023, 2024}, sep \in {"/", "-"} :
            resolver.text = NumericDate(d, m, y, sep) =>
                IF m <= 12 /\ d <= (IF m = 4 THEN 30
                                    ELSE IF y = 2024 THEN 29 ELSE 28)
                THEN LET day == DigitsOf(y, 4) \o <<"-">> \o DigitsOf(m, 2)
                                    \o <<"-">> \o DigitsOf(d, 2)
                     IN  resolver.period = [start |-> day, end |-> day]
                ELSE resolver.period = NoPeriod

\* 31/04/2024 gives no match
C19_Witness ==
    /\ resolver.called
    /\ resolver.text = NumericDate(31, 4, 2024, "/")
    /\ resolver.period = NoPeriod

\* C20: when the fetch node has served a climate_history request that has
\* a time_period, the range it asked the store for is that time_period
C20_FetchAsksForTimePeriod ==
    (/\ LastRan("fetch_sensor_data")
     /\ state.error_message = None
     /\ state.query_type = "climate_history"
     /\ state.time_period # NoPeriod)
        => requested = state.time_period

C21_StressSectionInAnswer ==
    (/\ LastRan("generate_final_response")
     /\ state.error_message = None
     /\ Ran("analyze_climate_data")
     /\ Stress(state.climate_summary, STRESS_THRESHOLDS))
        => \E k \in 1..Len(state.final_answer) : state.final_answer[k] = "Sugerencia técnica"

\* C22: in every state of a run, climate_summary is the empty object when
\* sensor_data is empty; and the analyze node, given the state without
\* telemetry, returns it with its tag appended and nothing else changed
C22_NoTelemetryNoSummary ==
    /\ state.sensor_data = <<>> => state.climate_summary = NoSummary
    /\ \A library_raises \in BOOLEAN :
          analyze_climate_data([state EXCEPT !.sensor_data = <<>>], library_raises, FALSE)
              = [state EXCEPT !.sensor_data = <<>>,
                              !.processing_steps = Append(@, "climate_analyzed")]

\* the fetch node has run and found nothing, and the run has returned
C22_Witness ==
    /\ outcome = "returned"
    /\ Ran("fetch_sensor_data")
    /\ state.error_message = None
    /\ state.sensor_data = <<>>
    /\ state.climate_summary = NoSummary

\* the tag each node appends to processing_steps when it completes, in the
\* order of the stages
AuditTags ==
    <<[node |-> "classify_query", tag |-> "query_classified"],
      [node |-> "fetch_sensor_data", tag |-> "sensor_data_fetched"],
      [node |-> "analyze_climate_data", tag |-> "climate_analyzed"],
      [node |-> "get_crop_recommendations", tag |-> "crop_recommendations_generated"],
      [node |-> "generate_final_response", tag |-> "final_response_generated"]>>

\* C23: a node that completes appends its one tag to processing_steps, a
\* node that fails and the error node leave the trail as it is, and no
\* step of a run changes the trail otherwise; when the graph has ended,
\* the tags are tags of AuditTags in its order without repetition, and
\* the first is query_classified unless classify failed
C23_AuditTrail ==
    /\ [][IF executed' = executed
          THEN state'.processing_steps = state.processing_steps
          ELSE LET name == executed'[Len(executed')]
               IN  IF name = "handle_error" \/ state'.error_message # state.error_message
                   THEN state'.processing_steps = state.processing_steps
                   ELSE \E k \in 1..Len(AuditTags) :
                           /\ AuditTags[k].node = name
                           /\ state'.processing_steps
                                  = Append(state.processing_steps, AuditTags[k].tag)]_vars
    /\ [](node = END =>
             /\ \A i \in 1..Len(state.processing_steps) :
                   \E k \in 1..Len(AuditTags) :
                       /\ state.processing_steps[i] = AuditTags[k].tag
                       /\ \A j \in 1..(i - 1) : \E m \in 1..(k - 1) :
                              state.processing_steps[j] = AuditTags[m].tag
             /\ state.processing_steps # <<>> =>
                    state.processing_steps[1] = "query_classified"
             /\ (executed # <<>> /\ state.processing_steps = <<>>) =>
                    state.error_message # None)

\* a run that went through four nodes and ended with four tags
C23_Witness ==
    /\ outcome = "returned"
    /\ Len(executed) = 4
    /\ state.processing_steps =
           <<"query_classified", "sensor_data_fetched", "climate_analyzed",
             "final_response_generated">>

\* C24: for the averages t = tsum / n and h = hsum / n of any telemetry, the
\* suitability lookup returns each crop once, and exactly the crops with t
\* inside the temperature range or h inside the humidity range (bounds
\* included); a returned crop is labelled "óptimo" iff both are inside and
\* "aceptable" iff exactly one is; the result is in non-decreasing order of
\* |t - ideal_t| + |h - ideal_h|; the analysis keeps its first five entries
C24_SuitabilityLookup ==
    state.climate_summary.kind = "full" =>
        LET n == state.climate_summary.n
            t == state.climate_summary.tsum
            h == state.climate_summary.hsum
            crops == get_suitable_crops_for_conditions(t, h, n)
            InT(k) == /\ CROPS_DATA[k].optimal_temperature.min * n <= t
                      /\ t <= CROPS_DATA[k].optimal_temperature.max * n
            InH(k) == /\ CROPS_DATA[k].optimal_humidity.min * n <= h
                      /\ h <= CROPS_DATA[k].optimal_humidity.max * n
            Distance(k) == Abs(t - n * CROPS_DATA[k].optimal_temperature.ideal)
                               + Abs(h - n * CROPS_DATA[k].optimal_humidity.ideal)
        IN  /\ Range(crops) = {k \in 1..Len(CROPS_DATA) : InT(k) \/ InH(k)}
            /\ Len(crops) = Cardinality(Range(crops))
            /\ \A k \in Range(crops) :
                  /\ Suitability(k, t, h, n) = "óptimo" <=> (InT(k) /\ InH(k))
                  /\ Suitability(k, t, h, n) = "aceptable" <=> (InT(k) # InH(k))
            /\ \A i \in 1..(Len(crops) - 1) : Distance(crops[i]) <= Distance(crops[i + 1])
            /\ Len(state.climate_summary.suitable_crops) <= 5
            /\ state.climate_summary.suitable_crops
                   = SubSeq(crops, 1, IF Len(crops) < 5 THEN Len(crops) ELSE 5)

\* all six crops are suitable, with both labels among them, at a bound of a
\* range, and the analysis kept five
C24_Witness ==
    /\ state.climate_summary.kind = "full"
    /\ state.climate_summary.n = 1
    /\ state.climate_summary.tsum = 20
    /\ Len(get_suitable_crops_for_conditions(20, state.climate_summary.hsum, 1)) = 6
    /\ Len(state.climate_summary.suitable_crops) = 5
    /\ \E j, k \in 1..Len(CROPS_DATA) :
          /\ Suitability(j, 20, state.climate_summary.hsum, 1) = "óptimo"
          /\ Suitability(k, 20, state.climate_summary.hsum, 1) = "aceptable"

\* C30: whenever a crop is optimal for the averages of the telemetry (both
\* inside its ranges), the first crop of the suitability ranking, the one
\* the "best-fit crop" recommendation names, is an optimal one
C30_TopRankedIsOptimal ==
    (/\ state.climate_summary.kind = "full"
     /\ \E k \in 1..Len(CROPS_DATA) :
           Suitability(k, state.climate_summary.tsum, state.climate_summary.hsum,
                       state.climate_summary.n) = "óptimo")
        => Suitability(state.climate_summary.suitable_crops[1],
                       state.climate_summary.tsum, state.climate_summary.hsum,
                       state.climate_summary.n) = "óptimo"

\* C25: every run terminates.  A step of the pipeline executes one stage,
\* and that stage is later, in the order classify, fetch, analyze,
\* recommend, respond, error, than every stage executed before it, so no
\* stage runs twice and no transition leads back; at most six stages are
\* executed; and the run reaches its end, whatever the routing and faults
C25_Terminates ==
    /\ [][LET Order == <<"classify_query", "fetch_sensor_data", "analyze_climate_data",
                         "get_crop_recommendations", "generate_final_response",
                         "handle_error">>
              Rank(name) == CHOOSE k \in 1..Len(Order) : Order[k] = name
          IN  executed' # executed =>
                 /\ Len(executed') = Len(executed) + 1
                 /\ SubSeq(executed', 1, Len(executed)) = executed
                 /\ executed'[Len(executed')] \in Range(Order)
                 /\ \A k \in 1..Len(executed) :
                       Rank(executed[k]) < Rank(executed'[Len(executed')])]_vars
    /\ [](Len(executed) <= 6)
    /\ <>(outcome = "returned")

\* the longest run: telemetry fetched and analysed, the response stage
\* fails, the error stage answers
C25_Witness ==
    /\ outcome = "returned"
    /\ node = END
    /\ executed = <<"classify_query", "fetch_sensor_data", "analyze_climate_data",
                    "generate_final_response", "handle_error">>

C27_RecommendationsListStaysEmpty ==
    /\ [][(/\ state.query_type = "recommendations"
           /\ executed' = Append(executed, "get_crop_recommendations")
           /\ state'.error_message = None)
             => /\ state' = [state EXCEPT
                                !.season_info = state'.season_info,
                                !.processing_steps =
                                    Append(@, "crop_recommendations_generated")]
                /\ state'.season_info \in {get_current_season(today), ""}]_vars
    /\ [](state.query_type = "recommendations" => state.recommendations = <<>>)

\* a recommendations run answered after the recommend stage stored a season
C27_Witness ==
    /\ outcome = "returned"
    /\ state.query_type = "recommendations"
    /\ LastRan("generate_final_response")
    /\ Ran("get_crop_recommendations")
    /\ state.error_message = None
    /\ state.season_info # ""
    /\ state.recommendations = <<>>
    /\ response.answer # <<>>

\* C28: every crop name the classifier can store in crop_mentioned is found
\* in the crop table by get_crop_info, so once the recommend stage of a
\* crop_advice run with a mentioned crop has completed, crop_requirements
\* holds that crop's entry and its regenerative practices are in
\* recommendations
C28_MentionedCropIsFound ==
    /\ (state.crop_mentioned # NoText) => get_crop_info(state.crop_mentioned) # {}
    /\ (/\ state.query_type = "crop_advice"
        /\ state.crop_mentioned # NoText
        /\ Ran("get_crop_recommendations")
        /\ state.error_message = None)
           => /\ state.crop_requirements # NoText
              /\ state.recommendations # <<>>

\* C29: a category remembered for the general-info lookup is one the lookup
\* recognises: the keyword classify_query matches in the query, the
\* category analyze_climate_data records with the stress flag, and so the
\* text respond appends is never that of an unrecognised category
C29_RememberedCategoryIsRecognised ==
    /\ (outcome = "running" /\ node = "classify_query") =>
           LET result == classify_query(state, today, FALSE)
           IN  result.general_info_requested =>
                   general_agriculture_info(result.general_info_category)
                       # "Categoría no reconocida"
    /\ (outcome = "running" /\ node = "analyze_climate_data") =>
           LET result == analyze_climate_data(state, FALSE, FALSE)
           IN  result.suggest_general_info =>
                   general_agriculture_info(result.suggested_category)
                       # "Categoría no reconocida"
    /\ \A k \in 1..Len(state.final_answer) :
           state.final_answer[k] # "Categoría no reconocida"

====
